---- MODULE Spec2Model ----
(***************************************************************************)
(* A model of the KString library (src/src/KString.c, src/include/KString.h).*)
(*                                                                         *)
(* Representation choices:                                                 *)
(*  - a C unsigned integer of 32 or 64 bits is a little-endian tuple of    *)
(*    16-bit limbs (2 or 4 of them), so that every bit of the meta field   *)
(*    and of the tagged pointer is there and arithmetic wraps at 2^32 or   *)
(*    2^64 as in C; quantities the code has already bounded by 2^30 are    *)
(*    plain naturals;                                                      *)
(*  - memory is a set of objects (caller buffers and allocator blocks),    *)
(*    each a capacity and a sparse byte map (an offset that is absent      *)
(*    holds 0). A read or write outside a live object is undefined         *)
(*    behaviour and is reported as a fault;                                *)
(*  - a KString is its 16 bytes: the 32-bit Size field and the 12-byte     *)
(*    union, of which LongStr.Prefix is bytes 1..4 and LongStr.PtrAndClass *)
(*    bytes 5..12.                                                         *)
(***************************************************************************)
EXTENDS Integers, Sequences, FiniteSets, TLC

VARIABLES heap, a, b, r, last, ShortBuffers, BufferIndex

vars == <<heap, a, b, r, last, ShortBuffers, BufferIndex>>

-----------------------------------------------------------------------------
(* Machine words                                                           *)

Limb == 2^16

Min(x, y) == IF x < y THEN x ELSE y

\* n < 2^31 as a 32-bit and as a 64-bit word
W32(n) == <<n % Limb, n \div Limb>>
W64(n) == <<n % Limb, n \div Limb, 0, 0>>

\* zero extension of a 32-bit word to size_t, truncation of size_t to uint32_t
Widen(w) == <<w[1], w[2], 0, 0>>
Narrow(w) == <<w[1], w[2]>>

\* the value of a word, for a word below 2^31
FitsNat(w) == w[2] < 2^15 /\ \A i \in DOMAIN w : i > 2 => w[i] = 0
WNat(w) == w[1] + w[2] * Limb

RECURSIVE WAddFrom(_, _, _, _)
WAddFrom(x, y, i, carry) ==
    IF i > Len(x) THEN <<>>
    ELSE LET s == x[i] + y[i] + carry
         IN  <<s % Limb>> \o WAddFrom(x, y, i + 1, s \div Limb)

\* x + y in the width of x (wraps)
WAdd(x, y) == WAddFrom(x, y, 1, 0)

RECURSIVE WSubFrom(_, _, _, _)
WSubFrom(x, y, i, borrow) ==
    IF i > Len(x) THEN <<>>
    ELSE LET d == x[i] - y[i] - borrow
         IN  <<d % Limb>> \o WSubFrom(x, y, i + 1, IF d < 0 THEN 1 ELSE 0)

\* x - y in the width of x (wraps)
WSub(x, y) == WSubFrom(x, y, 1, 0)

RECURSIVE WCmpFrom(_, _, _)
WCmpFrom(x, y, i) ==
    IF i = 0 THEN 0
    ELSE IF x[i] < y[i] THEN -1
    ELSE IF x[i] > y[i] THEN 1
    ELSE WCmpFrom(x, y, i - 1)

\* unsigned comparisons
WLt(x, y) == WCmpFrom(x, y, Len(x)) < 0
WGt(x, y) == WCmpFrom(x, y, Len(x)) > 0
WLe(x, y) == WCmpFrom(x, y, Len(x)) <= 0
WGe(x, y) == WCmpFrom(x, y, Len(x)) >= 0

RECURSIVE BitAnd(_, _)
BitAnd(x, y) ==
    IF x = 0 \/ y = 0 THEN 0
    ELSE (x % 2) * (y % 2) + 2 * BitAnd(x \div 2, y \div 2)

RECURSIVE BitOr(_, _)
BitOr(x, y) ==
    IF x = 0 THEN y
    ELSE IF y = 0 THEN x
    ELSE (IF x % 2 = 1 \/ y % 2 = 1 THEN 1 ELSE 0) + 2 * BitOr(x \div 2, y \div 2)

\* x & y, x | y, ~x on words
WAnd(x, y) == [i \in DOMAIN x |-> BitAnd(x[i], y[i])]
WOr(x, y) == [i \in DOMAIN x |-> BitOr(x[i], y[i])]
WNot(x) == [i \in DOMAIN x |-> Limb - 1 - x[i]]

LimbAt(x, i) == IF i \in DOMAIN x THEN x[i] ELSE 0

\* x << k and x >> k in the width of x
WShl(x, k) ==
    LET q == k \div 16
        s == k % 16
    IN  [i \in DOMAIN x |->
            ((LimbAt(x, i - q) * 2^s) % Limb) + (LimbAt(x, i - q - 1) \div 2^(16 - s))]

WShr(x, k) ==
    LET q == k \div 16
        s == k % 16
    IN  [i \in DOMAIN x |->
            (LimbAt(x, i + q) \div 2^s) + ((LimbAt(x, i + q + 1) % 2^s) * 2^(16 - s))]

WZero(x) == \A i \in DOMAIN x : x[i] = 0

UINT32_MAX == <<Limb - 1, Limb - 1>>
SIZE_MAX == <<Limb - 1, Limb - 1, Limb - 1, Limb - 1>>

-----------------------------------------------------------------------------
(* Constants of KString.h and KString.c                                    *)

KSTRING_MAX_SHORT_LENGTH == 12

KSTRING_ENCODING_UTF8 == 0
KSTRING_ENCODING_UTF16LE == 1
KSTRING_ENCODING_UTF16BE == 2
KSTRING_ENCODING_ANSI == 3

KStringEncoding ==
    {KSTRING_ENCODING_UTF8, KSTRING_ENCODING_UTF16LE,
     KSTRING_ENCODING_UTF16BE, KSTRING_ENCODING_ANSI}

\* 0x3FFFFFFF, 0xC0000000 (as a 32-bit word: it exceeds 2^31), 30
KSTRING_SIZE_MASK == 1073741823
KSTRING_ENCODING_MASK == <<0, 49152>>
KSTRING_ENCODING_SHIFT == 30

KSTRING_PERSISTENT == 0
KSTRING_TRANSIENT == 1
KSTRING_TEMPORARY == 2

\* 0x3FFFFFFFFFFFFFFF, 0xC000000000000000, 62
KSTRING_PTR_MASK == <<65535, 65535, 65535, 16383>>
KSTRING_CLASS_MASK == <<0, 0, 0, 49152>>
KSTRING_CLASS_SHIFT == 62

KSTRING_INVALID_LENGTH == UINT32_MAX

KSTRING_ALIGNMENT == 8

NULL == W64(0)

-----------------------------------------------------------------------------
(* Size/encoding codec and pointer tagging                                 *)

\* a classification that takes a length of exactly 12 for long
IsShortBelowMax(Size) == Size < KSTRING_MAX_SHORT_LENGTH

KS_IsShortString(Size) == Size <= KSTRING_MAX_SHORT_LENGTH

\* the storage class of a tagged pointer, a natural 0..3
KS_GetStorageClass(PtrAndClass) ==
    WNat(WShr(WAnd(PtrAndClass, KSTRING_CLASS_MASK), KSTRING_CLASS_SHIFT))

KS_GetPointer(PtrAndClass) == WAnd(PtrAndClass, KSTRING_PTR_MASK)

KS_CreateTaggedPointer(pPointer, StorageClass) ==
    IF ~WZero(WAnd(pPointer, WNot(KSTRING_PTR_MASK)))
    THEN W64(0)
    ELSE WOr(WAnd(pPointer, KSTRING_PTR_MASK),
             WShl(W64(StorageClass), KSTRING_CLASS_SHIFT))

\* the byte length held in a Size field, a natural below 2^30
KS_GetSizeFromField(SizeField) == WNat(WAnd(SizeField, W32(KSTRING_SIZE_MASK)))

KS_GetEncodingFromField(SizeField) ==
    WNat(WShr(WAnd(SizeField, KSTRING_ENCODING_MASK), KSTRING_ENCODING_SHIFT))

\* Size is a size_t (64-bit word), the result a uint32_t
KS_CreateSizeField(Size, Encoding) ==
    IF WGt(Size, W64(KSTRING_SIZE_MASK)) \/ WGt(Size, Widen(UINT32_MAX))
    THEN KSTRING_INVALID_LENGTH
    ELSE WOr(Narrow(Size), WShl(W32(Encoding), KSTRING_ENCODING_SHIFT))

-----------------------------------------------------------------------------
(* Memory                                                                  *)

Zeros(n) == [i \in 1..n |-> 0]

\* the sparse byte map of a byte sequence placed at offset 0
MemOf(seq) == [o \in {i - 1 : i \in {j \in 1..Len(seq) : seq[j] # 0}} |-> seq[o + 1]]

At(mem, o) == IF o \in DOMAIN mem THEN mem[o] ELSE 0

\* the n bytes at offset off, as a sequence (n small)
Bytes(mem, off, n) == [i \in 1..n |-> At(mem, off + i - 1)]

Store(mem, o, byte) ==
    IF byte = 0
    THEN [x \in DOMAIN mem \ {o} |-> mem[x]]
    ELSE [x \in DOMAIN mem \cup {o} |-> IF x = o THEN byte ELSE mem[x]]

\* memcpy(dst + doff, src + soff, n) on byte maps
Memcpy(dst, doff, src, soff, n) ==
    LET keep == {x \in DOMAIN dst : x < doff \/ x >= doff + n}
        new == {x - soff + doff : x \in {y \in DOMAIN src : y >= soff /\ y < soff + n}}
    IN  [x \in keep \cup new |-> IF x \in new THEN src[x - doff + soff] ELSE dst[x]]

\* What a char pointer refers to: nothing (NULL), or an object of cap bytes.
\* A dangling or wild pointer refers to an object of 0 bytes: any access to
\* it is out of bounds.
NullView == [null |-> TRUE, cap |-> 0, mem |-> <<>>]
WildView == [null |-> FALSE, cap |-> 0, mem |-> <<>>]

View(H, ptr) ==
    IF ptr = NULL THEN NullView
    ELSE IF ptr \in DOMAIN H.blk /\ H.blk[ptr].live
         THEN [null |-> FALSE, cap |-> H.blk[ptr].cap, mem |-> H.blk[ptr].mem]
         ELSE WildView

\* a pointer to a local array holding the bytes seq
LocalView(seq) == [null |-> FALSE, cap |-> Len(seq), mem |-> MemOf(seq)]

FreeBlock == [kind |-> "heap", live |-> FALSE, cap |-> 0, mem |-> <<>>]

Fault(H) == [H EXCEPT !.fault = TRUE]

\* calloc(1, n): the lowest free block of the arena, zero-filled; NULL when
\* the environment refuses the allocation (H.left = 0) or the arena is full,
\* which H.oom remembers
Calloc(H, n) ==
    LET free == {p \in DOMAIN H.blk : H.blk[p].kind = "heap" /\ ~H.blk[p].live}
    IN  IF H.left = 0 \/ free = {}
        THEN [ptr |-> NULL, H |-> [H EXCEPT !.oom = TRUE]]
        ELSE LET p == CHOOSE q \in free : \A q2 \in free : WLe(q, q2)
             IN  [ptr |-> p,
                  H |-> [H EXCEPT !.left = @ - 1,
                                  !.blk[p] = [kind |-> "heap", live |-> TRUE,
                                              cap |-> n, mem |-> <<>>]]]

\* free(ptr) for ptr # NULL; freeing what is not a live allocator block is
\* undefined behaviour
Free(H, ptr) ==
    IF ptr \in DOMAIN H.blk /\ H.blk[ptr].kind = "heap" /\ H.blk[ptr].live
    THEN [H EXCEPT !.blk[ptr] = FreeBlock]
    ELSE Fault(H)

KS_Alloc(H, Size) ==
    IF 0 = Size
    THEN [ptr |-> NULL, H |-> H]
    ELSE LET AlignedSize ==
                 ((Size + KSTRING_ALIGNMENT - 1) \div KSTRING_ALIGNMENT) * KSTRING_ALIGNMENT
         IN  Calloc(H, AlignedSize)

\* KS_Release(&p) for a local p: the caller's copy of the pointer is dead
\* after the call in every use the library makes of it
KS_Release(H, ptr) == IF ptr # NULL THEN Free(H, ptr) ELSE H

\* memcpy(p + doff, src + soff, n) into the allocator block at p
WriteBlock(H, p, doff, src, soff, n) ==
    IF n = 0 THEN H
    ELSE IF View(H, p).cap < doff + n \/ src.cap < soff + n THEN Fault(H)
    ELSE [H EXCEPT !.blk[p].mem = Memcpy(@, doff, src.mem, soff, n)]

\* p[o] = byte
StoreBlock(H, p, o, byte) ==
    IF View(H, p).cap < o + 1 THEN Fault(H)
    ELSE [H EXCEPT !.blk[p].mem = Store(@, o, byte)]

-----------------------------------------------------------------------------
(* The 16-byte value                                                       *)

\* the union's LongStr view of the 12 payload bytes
LongStrPrefix(Str) == SubSeq(Str.Content, 1, 4)

LongStrPtrAndClass(Str) ==
    [i \in 1..4 |-> Str.Content[3 + 2 * i] + 256 * Str.Content[4 + 2 * i]]

\* the 12 payload bytes of a LongStr {Prefix, PtrAndClass}
LongStr(Prefix, PtrAndClass) ==
    [i \in 1..12 |->
        IF i <= 4 THEN Prefix[i]
        ELSE LET w == PtrAndClass[(i - 3) \div 2]
             IN  IF i % 2 = 1 THEN w % 256 ELSE w \div 256]

\* a sentinel whose payload is not zeroed but still names a Temporary buffer
InvalidWithStaleReference ==
    [Size |-> KSTRING_INVALID_LENGTH,
     Content |-> LongStr(<<0, 0, 0, 0>>,
                         KS_CreateTaggedPointer(<<4112, 0, 0, 0>>, KSTRING_TEMPORARY))]

KStringInvalid == [Size |-> KSTRING_INVALID_LENGTH, Content |-> Zeros(12)]

KStringIsValid(Str) == Str.Size # KSTRING_INVALID_LENGTH

KStringIsShort(Str) == KS_IsShortString(KS_GetSizeFromField(Str.Size))

KStringSize(Str) == IF KStringIsValid(Str) THEN KS_GetSizeFromField(Str.Size) ELSE 0

KStringGetEncoding(Str) ==
    IF KStringIsValid(Str) THEN KS_GetEncodingFromField(Str.Size) ELSE KSTRING_ENCODING_UTF8

\* (true == KStringIsShort(Str)) ? Str.Content : KS_GetPointer(Str.LongStr.PtrAndClass)
KS_Data(H, Str) ==
    IF KStringIsShort(Str)
    THEN LocalView(Str.Content)
    ELSE View(H, KS_GetPointer(LongStrPtrAndClass(Str)))

\* memcpy(Result.Content, src + off, n) followed by the zero fill of the rest
InlineContent(src, off, n) ==
    [i \in 1..KSTRING_MAX_SHORT_LENGTH |-> IF i <= n THEN At(src.mem, off + i - 1) ELSE 0]

\* the 4 prefix bytes of a long string: memcpy(Prefix, src + off, PrefixSize)
\* and the zero fill
PrefixOf(src, off, Size) ==
    LET PrefixSize == IF Size >= 4 THEN 4 ELSE Size
    IN  [i \in 1..4 |-> IF i <= PrefixSize THEN At(src.mem, off + i - 1) ELSE 0]

\* Copy-owned construction. src is what pStr points to, Size a size_t.
KStringCreateWithEncoding(H, src, Size, Encoding) ==
    IF src.null THEN [ret |-> KStringInvalid, H |-> H]
    ELSE LET SizeField == KS_CreateSizeField(Size, Encoding)
             n == WNat(Size)
         IN  IF KSTRING_INVALID_LENGTH = SizeField THEN [ret |-> KStringInvalid, H |-> H]
             ELSE IF KS_IsShortString(n)
             THEN [ret |-> [Size |-> SizeField, Content |-> InlineContent(src, 0, n)],
                   H |-> IF src.cap < n THEN Fault(H) ELSE H]
             ELSE LET al == KS_Alloc(H, n + 1)
                      pData == al.ptr
                      H1 == StoreBlock(WriteBlock(al.H, pData, 0, src, 0, n), pData, n, 0)
                      PtrAndClass == KS_CreateTaggedPointer(pData, KSTRING_TEMPORARY)
                  IN  IF NULL = pData THEN [ret |-> KStringInvalid, H |-> al.H]
                      ELSE IF WZero(PtrAndClass)
                      THEN [ret |-> KStringInvalid, H |-> KS_Release(H1, pData)]
                      ELSE [ret |-> [Size |-> SizeField,
                                     Content |-> LongStr(PrefixOf(src, 0, n), PtrAndClass)],
                            H |-> H1]

KStringCreate(H, src, Size) == KStringCreateWithEncoding(H, src, Size, KSTRING_ENCODING_UTF8)

\* Wrapping construction: pStr is the caller's pointer, stored as it is in a
\* long value with the given storage class.
KS_CreateWrapped(H, pStr, Size, Encoding, StorageClass) ==
    IF NULL = pStr THEN [ret |-> KStringInvalid, H |-> H]
    ELSE LET SizeField == KS_CreateSizeField(Size, Encoding)
             n == WNat(Size)
             src == View(H, pStr)
         IN  IF KSTRING_INVALID_LENGTH = SizeField THEN [ret |-> KStringInvalid, H |-> H]
             ELSE IF KS_IsShortString(n)
             THEN [ret |-> [Size |-> SizeField, Content |-> InlineContent(src, 0, n)],
                   H |-> IF src.cap < n THEN Fault(H) ELSE H]
             ELSE [ret |-> [Size |-> SizeField,
                            Content |-> LongStr(PrefixOf(src, 0, n),
                                                KS_CreateTaggedPointer(pStr, StorageClass))],
                   H |-> IF src.cap < 4 THEN Fault(H) ELSE H]

KStringCreatePersistentWithEncoding(H, pStr, Size, Encoding) ==
    KS_CreateWrapped(H, pStr, Size, Encoding, KSTRING_PERSISTENT)

KStringCreateTransientWithEncoding(H, pStr, Size, Encoding) ==
    KS_CreateWrapped(H, pStr, Size, Encoding, KSTRING_TRANSIENT)

\* a release that frees nothing
DestroyNothing(H, Str) == H

KStringDestroy(H, Str) ==
    IF ~KStringIsShort(Str)
    THEN LET StorageClass == KS_GetStorageClass(LongStrPtrAndClass(Str))
         IN  IF KSTRING_TEMPORARY = StorageClass
             THEN KS_Release(H, KS_GetPointer(LongStrPtrAndClass(Str)))
             ELSE H
    ELSE H

-----------------------------------------------------------------------------
(* Comparison                                                              *)

\* What the C implementation leaves open and a comparison depends on:
\* whether memcmp returns the byte difference or its sign (unit), and
\* whether plain char is signed.
Platforms == [unit : BOOLEAN, charSigned : BOOLEAN]

Sign(x) == IF x < 0 THEN -1 ELSE IF x > 0 THEN 1 ELSE 0

\* the offsets below n at which the two byte maps differ after f
Mismatches(m1, m2, n, f(_)) ==
    {o \in (DOMAIN m1 \cup DOMAIN m2) : o < n /\ f(At(m1, o)) # f(At(m2, o))}

Lowest(S) == CHOOSE o \in S : \A o2 \in S : o <= o2

Identity(c) == c

\* memcmp(p1, p2, n): the bytes compare as unsigned char; reading n bytes
\* of an object smaller than n is undefined behaviour
Memcmp(v1, v2, n, Env) ==
    LET D == Mismatches(v1.mem, v2.mem, n, Identity)
        d == IF D = {} THEN 0 ELSE At(v1.mem, Lowest(D)) - At(v2.mem, Lowest(D))
    IN  [ret |-> IF Env.unit THEN Sign(d) ELSE d,
         fault |-> n > 0 /\ (v1.cap < n \/ v2.cap < n)]

\* a comparison that always goes to the data of both values
CompareWithoutShortcut(H, StrA, StrB, Env) ==
    IF KS_GetSizeFromField(StrA.Size) # KS_GetSizeFromField(StrB.Size)
    THEN [ret |-> IF KS_GetSizeFromField(StrA.Size) < KS_GetSizeFromField(StrB.Size) THEN -1 ELSE 1,
          fault |-> FALSE]
    ELSE Memcmp(KS_Data(H, StrA), KS_Data(H, StrB), KS_GetSizeFromField(StrA.Size), Env)

\* a comparison of out-of-line values that stops at the stored prefixes
ComparePrefixOnly(H, StrA, StrB, Env) ==
    IF KS_GetSizeFromField(StrA.Size) # KS_GetSizeFromField(StrB.Size)
    THEN [ret |-> IF KS_GetSizeFromField(StrA.Size) < KS_GetSizeFromField(StrB.Size) THEN -1 ELSE 1,
          fault |-> FALSE]
    ELSE IF KStringIsShort(StrA)
    THEN Memcmp(LocalView(StrA.Content), LocalView(StrB.Content),
                KS_GetSizeFromField(StrA.Size), Env)
    ELSE Memcmp(LocalView(LongStrPrefix(StrA)), LocalView(LongStrPrefix(StrB)), 4, Env)

\* a comparison that answers -1 whenever the lengths differ
CompareLengthOneWay(H, StrA, StrB, Env) ==
    IF KS_GetSizeFromField(StrA.Size) # KS_GetSizeFromField(StrB.Size)
    THEN [ret |-> -1, fault |-> FALSE]
    ELSE Memcmp(KS_Data(H, StrA), KS_Data(H, StrB), KS_GetSizeFromField(StrA.Size), Env)

KStringCompare(H, StrA, StrB, Env) ==
    LET SizeA == KS_GetSizeFromField(StrA.Size)
        SizeB == KS_GetSizeFromField(StrB.Size)
    IN  IF SizeA # SizeB
        THEN [ret |-> IF SizeA < SizeB THEN -1 ELSE 1, fault |-> FALSE]
        ELSE IF KStringIsShort(StrA) /\ KStringIsShort(StrB)
        THEN Memcmp(LocalView(StrA.Content), LocalView(StrB.Content), SizeA, Env)
        ELSE IF KStringIsShort(StrA) \/ KStringIsShort(StrB)
        THEN Memcmp(KS_Data(H, StrA), KS_Data(H, StrB), SizeA, Env)
        ELSE LET PrefixCmp == Memcmp(LocalView(LongStrPrefix(StrA)),
                                     LocalView(LongStrPrefix(StrB)), 4, Env)
             IN  IF 0 # PrefixCmp.ret
                 THEN PrefixCmp
                 ELSE Memcmp(View(H, KS_GetPointer(LongStrPtrAndClass(StrA))),
                             View(H, KS_GetPointer(LongStrPtrAndClass(StrB))), SizeA, Env)

\* an equality test that also compares the encoding tags
EqualsWithTag(H, StrA, StrB, Env) ==
    [ret |-> KStringCompare(H, StrA, StrB, Env).ret = 0 /\ StrA.Size = StrB.Size,
     fault |-> KStringCompare(H, StrA, StrB, Env).fault]

KStringEquals(H, StrA, StrB, Env) ==
    LET c == KStringCompare(H, StrA, StrB, Env)
    IN  [ret |-> c.ret = 0, fault |-> c.fault]

\* memcmp(..) == 0 as a result record
IsZero(c) == [ret |-> c.ret = 0, fault |-> c.fault]

Plain(x) == [ret |-> x, fault |-> FALSE]

\* a prefix test that looks at the two lengths only
StartsWithByLength(H, Str, Prefix, Env) ==
    Plain(KS_GetSizeFromField(Prefix.Size) <= KS_GetSizeFromField(Str.Size))

KStringStartsWith(H, Str, Prefix, Env) ==
    LET StrSize == KS_GetSizeFromField(Str.Size)
        PrefixSize == KS_GetSizeFromField(Prefix.Size)
    IN  IF PrefixSize > StrSize THEN Plain(FALSE)
        ELSE IF 0 = PrefixSize THEN Plain(TRUE)
        ELSE IF KStringIsShort(Str) /\ KStringIsShort(Prefix)
        THEN IsZero(Memcmp(LocalView(Str.Content), LocalView(Prefix.Content), PrefixSize, Env))
        ELSE IF KStringIsShort(Str)
        THEN IsZero(Memcmp(LocalView(Str.Content), KS_Data(H, Prefix), PrefixSize, Env))
        ELSE IF KStringIsShort(Prefix)
        THEN IF PrefixSize <= 4
             THEN IsZero(Memcmp(LocalView(LongStrPrefix(Str)), LocalView(Prefix.Content),
                                PrefixSize, Env))
             ELSE IsZero(Memcmp(View(H, KS_GetPointer(LongStrPtrAndClass(Str))),
                                LocalView(Prefix.Content), PrefixSize, Env))
        ELSE IF PrefixSize <= 4
             THEN IsZero(Memcmp(LocalView(LongStrPrefix(Str)),
                                LocalView(LongStrPrefix(Prefix)), PrefixSize, Env))
             ELSE IsZero(Memcmp(View(H, KS_GetPointer(LongStrPtrAndClass(Str))),
                                View(H, KS_GetPointer(LongStrPtrAndClass(Prefix))),
                                PrefixSize, Env))

KS_ToLowerAscii(c) == IF c >= 65 /\ c <= 90 THEN c + 32 ELSE c

\* the value of a byte held in a plain char
CharValue(c, Env) == IF Env.charSigned /\ c >= 128 THEN c - 256 ELSE c

\* The loop reads index i of both objects for i = 0, 1, .. until a pair
\* differs or i reaches Size (a size_t); a read at or past the end of an
\* object is undefined behaviour.
KS_MemcmpIgnoreCase(v1, v2, Size, Env) ==
    LET lim == Min(v1.cap, v2.cap)
        n == IF WLt(Size, W64(lim)) THEN WNat(Size) ELSE lim
        D == Mismatches(v1.mem, v2.mem, n, KS_ToLowerAscii)
        c1 == CharValue(KS_ToLowerAscii(At(v1.mem, Lowest(D))), Env)
        c2 == CharValue(KS_ToLowerAscii(At(v2.mem, Lowest(D))), Env)
    IN  IF D # {} THEN Plain(IF c1 < c2 THEN -1 ELSE 1)
        ELSE [ret |-> 0, fault |-> WGt(Size, W64(lim))]

KStringCompareIgnoreCase(H, StrA, StrB, Env) ==
    IF StrA.Size # StrB.Size
    THEN Plain(IF WLt(StrA.Size, StrB.Size) THEN -1 ELSE 1)
    ELSE IF KStringIsShort(StrA) /\ KStringIsShort(StrB)
    THEN KS_MemcmpIgnoreCase(LocalView(StrA.Content), LocalView(StrB.Content),
                             Widen(StrA.Size), Env)
    ELSE IF KStringIsShort(StrA) \/ KStringIsShort(StrB)
    THEN KS_MemcmpIgnoreCase(KS_Data(H, StrA), KS_Data(H, StrB), Widen(StrA.Size), Env)
    ELSE LET PrefixCmp == KS_MemcmpIgnoreCase(LocalView(LongStrPrefix(StrA)),
                                              LocalView(LongStrPrefix(StrB)), W64(4), Env)
         IN  IF 0 # PrefixCmp.ret
             THEN PrefixCmp
             ELSE KS_MemcmpIgnoreCase(View(H, KS_GetPointer(LongStrPtrAndClass(StrA))),
                                      View(H, KS_GetPointer(LongStrPtrAndClass(StrB))),
                                      Widen(StrA.Size), Env)

\* an equality test that does not fold the case
EqualsWithCase(H, StrA, StrB, Env) == KStringEquals(H, StrA, StrB, Env)

KStringEqualsIgnoreCase(H, StrA, StrB, Env) ==
    IsZero(KStringCompareIgnoreCase(H, StrA, StrB, Env))

KStringStartsWithIgnoreCase(H, Str, Prefix, Env) ==
    LET StrSize == KS_GetSizeFromField(Str.Size)
        PrefixSize == KS_GetSizeFromField(Prefix.Size)
        n == W64(PrefixSize)
    IN  IF PrefixSize > StrSize THEN Plain(FALSE)
        ELSE IF 0 = PrefixSize THEN Plain(TRUE)
        ELSE IF KStringIsShort(Str) /\ KStringIsShort(Prefix)
        THEN IsZero(KS_MemcmpIgnoreCase(LocalView(Str.Content), LocalView(Prefix.Content),
                                        n, Env))
        ELSE IF KStringIsShort(Str)
        THEN IsZero(KS_MemcmpIgnoreCase(LocalView(Str.Content), KS_Data(H, Prefix), n, Env))
        ELSE IF KStringIsShort(Prefix)
        THEN IF PrefixSize <= 4
             THEN IsZero(KS_MemcmpIgnoreCase(LocalView(LongStrPrefix(Str)),
                                             LocalView(Prefix.Content), n, Env))
             ELSE IsZero(KS_MemcmpIgnoreCase(View(H, KS_GetPointer(LongStrPtrAndClass(Str))),
                                             LocalView(Prefix.Content), n, Env))
        ELSE IF PrefixSize <= 4
             THEN IsZero(KS_MemcmpIgnoreCase(LocalView(LongStrPrefix(Str)),
                                             LocalView(LongStrPrefix(Prefix)), n, Env))
             ELSE IsZero(KS_MemcmpIgnoreCase(View(H, KS_GetPointer(LongStrPtrAndClass(Str))),
                                             View(H, KS_GetPointer(LongStrPtrAndClass(Prefix))),
                                             n, Env))

-----------------------------------------------------------------------------
(* Concatenation and substring                                             *)

KStringConcat(H, StrA, StrB) ==
    IF ~KStringIsValid(StrA) \/ ~KStringIsValid(StrB)
    THEN [ret |-> KStringInvalid, H |-> H]
    ELSE
    LET SizeA == KS_GetSizeFromField(StrA.Size)
        SizeB == KS_GetSizeFromField(StrB.Size)
        TotalLength == SizeA + SizeB
        Encoding == KS_GetEncodingFromField(StrA.Size)
        al == KS_Alloc(H, TotalLength + 1)
        pBuffer == al.ptr
        H1 == WriteBlock(al.H, pBuffer, 0, KS_Data(H, StrA), 0, SizeA)
        H2 == WriteBlock(H1, pBuffer, SizeA, KS_Data(H, StrB), 0, SizeB)
        H3 == StoreBlock(H2, pBuffer, TotalLength, 0)
        SizeField == KS_CreateSizeField(W64(TotalLength), Encoding)
    IN  IF WGt(W64(SizeA), WSub(SIZE_MAX, W64(SizeB)))
        THEN [ret |-> KStringInvalid, H |-> H]
        ELSE IF TotalLength > KSTRING_SIZE_MASK
        THEN [ret |-> KStringInvalid, H |-> H]
        ELSE IF NULL = pBuffer
        THEN [ret |-> KStringInvalid, H |-> al.H]
        ELSE IF KSTRING_INVALID_LENGTH = SizeField
        THEN [ret |-> KStringInvalid, H |-> KS_Release(H3, pBuffer)]
        ELSE IF KS_IsShortString(TotalLength)
        THEN [ret |-> [Size |-> SizeField,
                       Content |-> InlineContent(View(H3, pBuffer), 0, TotalLength)],
              H |-> KS_Release(H3, pBuffer)]
        ELSE [ret |-> [Size |-> SizeField,
                       Content |-> LongStr(Bytes(View(H3, pBuffer).mem, 0, 4),
                                           KS_CreateTaggedPointer(pBuffer, KSTRING_TEMPORARY))],
              H |-> H3]

\* Offset and Size are size_t
KStringSubstring(H, Str, Offset, Size) ==
    IF ~KStringIsValid(Str)
    THEN [ret |-> KStringInvalid, H |-> H]
    ELSE
    LET StrSize == KS_GetSizeFromField(Str.Size)
        Encoding == KS_GetEncodingFromField(Str.Size)
        LocalSize == IF WGt(WAdd(Offset, Size), W64(StrSize))
                     THEN WSub(W64(StrSize), Offset)
                     ELSE Size
        pSourceData == KS_Data(H, Str)
        SizeField == KS_CreateSizeField(LocalSize, Encoding)
        n == WNat(LocalSize)
        off == WNat(Offset)
        al == KS_Alloc(H, n + 1)
        pBuffer == al.ptr
        H1 == StoreBlock(WriteBlock(al.H, pBuffer, 0, pSourceData, off, n), pBuffer, n, 0)
    IN  IF WGe(Offset, W64(StrSize))
        THEN [ret |-> KStringInvalid, H |-> H]
        ELSE IF WGt(LocalSize, W64(KSTRING_SIZE_MASK))
        THEN [ret |-> KStringInvalid, H |-> H]
        ELSE IF KSTRING_INVALID_LENGTH = SizeField
        THEN [ret |-> KStringInvalid, H |-> H]
        ELSE IF KS_IsShortString(n)
        THEN [ret |-> [Size |-> SizeField, Content |-> InlineContent(pSourceData, off, n)],
              H |-> IF n > 0 /\ pSourceData.cap < off + n THEN Fault(H) ELSE H]
        ELSE IF NULL = pBuffer
        THEN [ret |-> KStringInvalid, H |-> al.H]
        ELSE [ret |-> [Size |-> SizeField,
                       Content |-> LongStr(Bytes(View(H1, pBuffer).mem, 0, 4),
                                           KS_CreateTaggedPointer(pBuffer, KSTRING_TEMPORARY))],
              H |-> H1]

-----------------------------------------------------------------------------
(* Encoding conversion: the transcoding loops                              *)
(*                                                                         *)
(* Each loop is a recursion over its state [i, out, fault]: i the source   *)
(* index, out the units or bytes written so far (the count the C code      *)
(* keeps is Len(out)), fault whether an access left its object. src is the *)
(* source object, dcap the number of elements the destination holds.       *)

\* Count < Max - k, in size_t: Max - k wraps when Max < k
Below(Count, Max, k) == WLt(W64(Count), WSub(W64(Max), W64(k)))

\* the continuation bits of byte c: c & 0x3F
Low6(c) == c % 64

\* the 16-bit unit i of an object, stored low byte first
UnitAt(src, i) == At(src.mem, 2 * i) + 256 * At(src.mem, 2 * i + 1)

\* the bytes of a sequence of 16-bit units, low byte first
UnitBytes(units) ==
    [k \in 1..(2 * Len(units)) |->
        IF k % 2 = 1 THEN units[(k + 1) \div 2] % 256 ELSE units[k \div 2] \div 256]

\* one pass of the while loop of KS_ConvertUtf8ToUtf16Le; stop says break
Utf8ToUtf16Step(src, Utf8Size, MaxUtf16Size, st) ==
    LET i == st.i
        FirstByte == At(src.mem, i)
        Utf16Count == Len(st.out)
        b1 == At(src.mem, i + 1)
        b2 == At(src.mem, i + 2)
        b3 == At(src.mem, i + 3)
        cp2 == ((FirstByte % 32) * 64) + Low6(b1)
        cp3 == ((FirstByte % 16) * 4096) + (Low6(b1) * 64) + Low6(b2)
        cp4 == ((FirstByte % 8) * 262144) + (Low6(b1) * 4096) + (Low6(b2) * 64) + Low6(b3)
        Emit(units, n) == [i |-> i + n, out |-> st.out \o units, fault |-> st.fault,
                           stop |-> FALSE]
        Break == [st EXCEPT !.stop = TRUE]
    IN  IF FirstByte < 128
        THEN Emit(<<FirstByte>>, 1)
        ELSE IF FirstByte \div 32 = 6
        THEN IF i + 1 < Utf8Size THEN Emit(<<cp2>>, 2) ELSE Break
        ELSE IF FirstByte \div 16 = 14
        THEN IF i + 2 < Utf8Size THEN Emit(<<cp3>>, 3) ELSE Break
        ELSE IF FirstByte \div 8 = 30
        THEN IF i + 3 < Utf8Size
             THEN IF cp4 > 65535 /\ Below(Utf16Count, MaxUtf16Size, 2)
                  THEN Emit(<<(55296 + ((cp4 - 65536) \div 1024)) % Limb,
                              (56320 + ((cp4 - 65536) % 1024)) % Limb>>, 4)
                  ELSE IF cp4 <= 65535 THEN Emit(<<cp4>>, 4)
                  ELSE Emit(<<>>, 4)
             ELSE Break
        ELSE Emit(<<0>>, 1)

RECURSIVE KS_ConvertUtf8ToUtf16Le(_, _, _, _, _)
KS_ConvertUtf8ToUtf16Le(src, Utf8Size, dcap, MaxUtf16Size, st) ==
    IF st.fault \/ st.stop \/ ~(st.i < Utf8Size /\ Below(Len(st.out), MaxUtf16Size, 1))
    THEN st
    ELSE LET nx == Utf8ToUtf16Step(src, Utf8Size, MaxUtf16Size, st)
         IN  KS_ConvertUtf8ToUtf16Le(src, Utf8Size, dcap, MaxUtf16Size,
                 [nx EXCEPT !.fault = src.cap < (IF nx.stop THEN st.i + 1 ELSE nx.i)
                                        \/ dcap < Len(nx.out)])

\* the UTF-8 bytes of a code point, by the ranges of KS_ConvertUtf16LeToUtf8
Utf8Encode(CodePoint) ==
    IF CodePoint < 128 THEN <<CodePoint>>
    ELSE IF CodePoint < 2048
    THEN <<192 + (CodePoint \div 64), 128 + (CodePoint % 64)>>
    ELSE IF CodePoint < 65536
    THEN <<224 + (CodePoint \div 4096), 128 + ((CodePoint \div 64) % 64), 128 + (CodePoint % 64)>>
    ELSE IF CodePoint < 1114112
    THEN <<240 + (CodePoint \div 262144), 128 + ((CodePoint \div 4096) % 64),
           128 + ((CodePoint \div 64) % 64), 128 + (CodePoint % 64)>>
    ELSE <<>>

IsHighSurrogate(u) == u >= 55296 /\ u <= 56319

\* a low-surrogate test that stops at 0xDDFF
IsLowSurrogateBelowDE00(u) == u >= 56320 /\ u <= 56831

IsLowSurrogate(u) == u >= 56320 /\ u <= 57343

RECURSIVE KS_ConvertUtf16LeToUtf8(_, _, _, _, _)
KS_ConvertUtf16LeToUtf8(src, Utf16Size, dcap, MaxUtf8Size, st) ==
    IF st.fault \/ ~(st.i < Utf16Size /\ Below(Len(st.out), MaxUtf8Size, 4))
    THEN st
    ELSE LET i == st.i
             CodePoint == UnitAt(src, i)
             LowSurrogate == UnitAt(src, i + 1)
             nx == IF IsHighSurrogate(CodePoint) /\ i + 1 < Utf16Size
                   THEN IF IsLowSurrogate(LowSurrogate)
                        THEN [i |-> i + 2,
                              out |-> st.out \o Utf8Encode(65536 + (CodePoint - 55296) * 1024
                                                                 + (LowSurrogate - 56320))]
                        ELSE [i |-> i + 1, out |-> st.out]
                   ELSE [i |-> i + 1, out |-> st.out \o Utf8Encode(CodePoint)]
         IN  KS_ConvertUtf16LeToUtf8(src, Utf16Size, dcap, MaxUtf8Size,
                 [i |-> nx.i, out |-> nx.out,
                  fault |-> src.cap < 2 * nx.i \/ dcap < Len(nx.out)])

RECURSIVE KS_ConvertUtf8ToAnsi(_, _, _, _, _)
KS_ConvertUtf8ToAnsi(src, Utf8Size, dcap, MaxAnsiSize, st) ==
    IF st.fault \/ ~(st.i < Utf8Size /\ Below(Len(st.out), MaxAnsiSize, 1))
    THEN st
    ELSE LET i == st.i
             FirstByte == At(src.mem, i)
             CodePoint == ((FirstByte % 32) * 64) + Low6(At(src.mem, i + 1))
             nx == IF FirstByte < 128
                   THEN [i |-> i + 1, out |-> st.out \o <<FirstByte>>, rd |-> i + 1]
                   ELSE IF FirstByte \div 32 = 6 /\ i + 1 < Utf8Size
                   THEN [i |-> i + 2, rd |-> i + 2,
                         out |-> st.out \o <<IF CodePoint <= 255 THEN CodePoint ELSE 63>>]
                   ELSE [i |-> IF FirstByte \div 16 = 14 THEN i + 3
                               ELSE IF FirstByte \div 8 = 30 THEN i + 4
                               ELSE i + 1,
                         rd |-> i + 1,
                         out |-> st.out \o <<63>>]
         IN  KS_ConvertUtf8ToAnsi(src, Utf8Size, dcap, MaxAnsiSize,
                 [i |-> nx.i, out |-> nx.out,
                  fault |-> src.cap < nx.rd \/ dcap < Len(nx.out)])

RECURSIVE KS_ConvertAnsiToUtf8(_, _, _, _, _)
KS_ConvertAnsiToUtf8(src, AnsiSize, dcap, MaxUtf8Size, st) ==
    IF st.fault \/ ~(st.i < AnsiSize /\ Below(Len(st.out), MaxUtf8Size, 3))
    THEN st
    ELSE LET AnsiChar == At(src.mem, st.i)
             new == IF AnsiChar < 128 THEN <<AnsiChar>>
                    ELSE IF AnsiChar < 2048
                    THEN <<192 + (AnsiChar \div 64), 128 + (AnsiChar % 64)>>
                    ELSE <<224 + (AnsiChar \div 4096), 128 + ((AnsiChar \div 64) % 64),
                           128 + (AnsiChar % 64)>>
         IN  KS_ConvertAnsiToUtf8(src, AnsiSize, dcap, MaxUtf8Size,
                 [i |-> st.i + 1, out |-> st.out \o new,
                  fault |-> src.cap < st.i + 1 \/ dcap < Len(st.out \o new)])

\* the byte-swapping for loop of the two UTF-16 byte order conversions:
\* for (i = 0; i < DataSize - 1; i += 2), in size_t
RECURSIVE KS_SwapBytes(_, _, _, _)
KS_SwapBytes(src, DataSize, dcap, st) ==
    IF st.fault \/ ~WLt(W64(st.i), WSub(W64(DataSize), W64(1)))
    THEN st
    ELSE KS_SwapBytes(src, DataSize, dcap,
             [i |-> st.i + 2,
              out |-> st.out \o <<At(src.mem, st.i + 1), At(src.mem, st.i)>>,
              fault |-> src.cap < st.i + 2 \/ dcap < st.i + 2])

-----------------------------------------------------------------------------
(* Encoding conversion: the API functions                                  *)

LoopStart == [i |-> 0, out |-> <<>>, fault |-> FALSE, stop |-> FALSE]

\* the allocator state after a loop has filled the block at p with bytes
Filled(H, p, st, bytes) ==
    IF st.fault THEN Fault(H)
    ELSE WriteBlock(H, p, 0, LocalView(bytes), 0, Len(bytes))

\* KStringCreateWithEncoding(pBuffer, Count, Encoding); KS_Release(&pBuffer)
CreateAndRelease(H, pBuffer, Count, Encoding) ==
    LET Result == KStringCreateWithEncoding(H, View(H, pBuffer), W64(Count), Encoding)
    IN  [ret |-> Result.ret, H |-> KS_Release(Result.H, pBuffer)]

KStringConvertUtf8ToUtf16Le(H, Str) ==
    IF ~KStringIsValid(Str) \/ KS_GetEncodingFromField(Str.Size) # KSTRING_ENCODING_UTF8
    THEN [ret |-> KStringInvalid, H |-> H]
    ELSE LET Utf8Size == KS_GetSizeFromField(Str.Size)
             MaxUtf16Count == Utf8Size
             al == KS_Alloc(H, (MaxUtf16Count + 1) * 2)
             st == KS_ConvertUtf8ToUtf16Le(KS_Data(H, Str), Utf8Size,
                                           View(al.H, al.ptr).cap \div 2, MaxUtf16Count,
                                           LoopStart)
             Utf16Count == Len(st.out)
         IN  IF NULL = al.ptr THEN [ret |-> KStringInvalid, H |-> al.H]
             ELSE CreateAndRelease(Filled(al.H, al.ptr, st, UnitBytes(st.out)), al.ptr,
                                   Utf16Count * 2, KSTRING_ENCODING_UTF16LE)

KStringConvertUtf16LeToUtf8(H, Str) ==
    IF ~KStringIsValid(Str) \/ KS_GetEncodingFromField(Str.Size) # KSTRING_ENCODING_UTF16LE
    THEN [ret |-> KStringInvalid, H |-> H]
    ELSE LET Utf16Size == KS_GetSizeFromField(Str.Size) \div 2
             MaxUtf8Size == Utf16Size * 4
             al == KS_Alloc(H, MaxUtf8Size + 1)
             st == KS_ConvertUtf16LeToUtf8(KS_Data(H, Str), Utf16Size,
                                           View(al.H, al.ptr).cap, MaxUtf8Size, LoopStart)
         IN  IF NULL = al.ptr THEN [ret |-> KStringInvalid, H |-> al.H]
             ELSE CreateAndRelease(Filled(al.H, al.ptr, st, st.out), al.ptr,
                                   Len(st.out), KSTRING_ENCODING_UTF8)

\* the common body of the two byte order conversions
KS_ConvertByteOrder(H, Str, From, To) ==
    IF ~KStringIsValid(Str) \/ KS_GetEncodingFromField(Str.Size) # From
    THEN [ret |-> KStringInvalid, H |-> H]
    ELSE LET DataSize == KS_GetSizeFromField(Str.Size)
             al == KS_Alloc(H, DataSize + 2)
             st == KS_SwapBytes(KS_Data(H, Str), DataSize, View(al.H, al.ptr).cap, LoopStart)
         IN  IF NULL = al.ptr THEN [ret |-> KStringInvalid, H |-> al.H]
             ELSE CreateAndRelease(Filled(al.H, al.ptr, st, st.out), al.ptr, DataSize, To)

KStringConvertUtf16LeToUtf16Be(H, Str) ==
    KS_ConvertByteOrder(H, Str, KSTRING_ENCODING_UTF16LE, KSTRING_ENCODING_UTF16BE)

KStringConvertUtf16BeToUtf16Le(H, Str) ==
    KS_ConvertByteOrder(H, Str, KSTRING_ENCODING_UTF16BE, KSTRING_ENCODING_UTF16LE)

KStringConvertUtf8ToUtf16Be(H, Str) ==
    LET Utf16LeStr == KStringConvertUtf8ToUtf16Le(H, Str)
    IN  IF ~KStringIsValid(Utf16LeStr.ret)
        THEN [ret |-> KStringInvalid, H |-> Utf16LeStr.H]
        ELSE KStringConvertUtf16LeToUtf16Be(Utf16LeStr.H, Utf16LeStr.ret)

KStringConvertUtf16BeToUtf8(H, Str) ==
    LET Utf16LeStr == KStringConvertUtf16BeToUtf16Le(H, Str)
        Result == KStringConvertUtf16LeToUtf8(Utf16LeStr.H, Utf16LeStr.ret)
    IN  IF ~KStringIsValid(Utf16LeStr.ret)
        THEN [ret |-> KStringInvalid, H |-> Utf16LeStr.H]
        ELSE [ret |-> Result.ret, H |-> KStringDestroy(Result.H, Utf16LeStr.ret)]

KStringConvertUtf8ToAnsi(H, Str) ==
    IF ~KStringIsValid(Str) \/ KS_GetEncodingFromField(Str.Size) # KSTRING_ENCODING_UTF8
    THEN [ret |-> KStringInvalid, H |-> H]
    ELSE LET Utf8Size == KS_GetSizeFromField(Str.Size)
             al == KS_Alloc(H, Utf8Size + 1)
             st == KS_ConvertUtf8ToAnsi(KS_Data(H, Str), Utf8Size,
                                        View(al.H, al.ptr).cap, Utf8Size, LoopStart)
         IN  IF NULL = al.ptr THEN [ret |-> KStringInvalid, H |-> al.H]
             ELSE CreateAndRelease(Filled(al.H, al.ptr, st, st.out), al.ptr,
                                   Len(st.out), KSTRING_ENCODING_ANSI)

KStringConvertAnsiToUtf8(H, Str) ==
    IF ~KStringIsValid(Str) \/ KS_GetEncodingFromField(Str.Size) # KSTRING_ENCODING_ANSI
    THEN [ret |-> KStringInvalid, H |-> H]
    ELSE LET AnsiSize == KS_GetSizeFromField(Str.Size)
             al == KS_Alloc(H, AnsiSize * 3 + 1)
             st == KS_ConvertAnsiToUtf8(KS_Data(H, Str), AnsiSize,
                                        View(al.H, al.ptr).cap, AnsiSize * 3, LoopStart)
         IN  IF NULL = al.ptr THEN [ret |-> KStringInvalid, H |-> al.H]
             ELSE CreateAndRelease(Filled(al.H, al.ptr, st, st.out), al.ptr,
                                   Len(st.out), KSTRING_ENCODING_UTF8)

\* the two-step routes of KStringConvertToEncoding: First, then Second on
\* its result, then KStringDestroy of the intermediate value
KS_ConvertVia(H, Str, First(_, _), Second(_, _)) ==
    LET Utf8Str == First(H, Str)
        Converted == Second(Utf8Str.H, Utf8Str.ret)
    IN  IF ~KStringIsValid(Utf8Str.ret)
        THEN [ret |-> KStringInvalid, H |-> Utf8Str.H]
        ELSE [ret |-> Converted.ret, H |-> KStringDestroy(Converted.H, Utf8Str.ret)]

KStringConvertToEncoding(H, Str, TargetEncoding) ==
    LET SourceEncoding == KS_GetEncodingFromField(Str.Size)
        Invalid == [ret |-> KStringInvalid, H |-> H]
    IN  IF ~KStringIsValid(Str) THEN Invalid
        ELSE IF SourceEncoding = TargetEncoding
        THEN KStringCreateWithEncoding(H, KS_Data(H, Str),
                                       W64(KS_GetSizeFromField(Str.Size)), TargetEncoding)
        ELSE IF SourceEncoding = KSTRING_ENCODING_UTF8
        THEN IF TargetEncoding = KSTRING_ENCODING_UTF16LE
             THEN KStringConvertUtf8ToUtf16Le(H, Str)
             ELSE IF TargetEncoding = KSTRING_ENCODING_UTF16BE
             THEN KStringConvertUtf8ToUtf16Be(H, Str)
             ELSE IF TargetEncoding = KSTRING_ENCODING_ANSI
             THEN KStringConvertUtf8ToAnsi(H, Str)
             ELSE Invalid
        ELSE IF SourceEncoding = KSTRING_ENCODING_UTF16LE
        THEN IF TargetEncoding = KSTRING_ENCODING_UTF8
             THEN KStringConvertUtf16LeToUtf8(H, Str)
             ELSE IF TargetEncoding = KSTRING_ENCODING_UTF16BE
             THEN KStringConvertUtf16LeToUtf16Be(H, Str)
             ELSE IF TargetEncoding = KSTRING_ENCODING_ANSI
             THEN KS_ConvertVia(H, Str, KStringConvertUtf16LeToUtf8, KStringConvertUtf8ToAnsi)
             ELSE Invalid
        ELSE IF SourceEncoding = KSTRING_ENCODING_UTF16BE
        THEN IF TargetEncoding = KSTRING_ENCODING_UTF8
             THEN KStringConvertUtf16BeToUtf8(H, Str)
             ELSE IF TargetEncoding = KSTRING_ENCODING_UTF16LE
             THEN KStringConvertUtf16BeToUtf16Le(H, Str)
             ELSE IF TargetEncoding = KSTRING_ENCODING_ANSI
             THEN KS_ConvertVia(H, Str, KStringConvertUtf16BeToUtf8, KStringConvertUtf8ToAnsi)
             ELSE Invalid
        ELSE IF SourceEncoding = KSTRING_ENCODING_ANSI
        THEN IF TargetEncoding = KSTRING_ENCODING_UTF8
             THEN KStringConvertAnsiToUtf8(H, Str)
             ELSE IF TargetEncoding = KSTRING_ENCODING_UTF16LE
             THEN KS_ConvertVia(H, Str, KStringConvertAnsiToUtf8, KStringConvertUtf8ToUtf16Le)
             ELSE IF TargetEncoding = KSTRING_ENCODING_UTF16BE
             THEN KS_ConvertVia(H, Str, KStringConvertAnsiToUtf8, KStringConvertUtf8ToUtf16Be)
             ELSE Invalid
        ELSE Invalid

-----------------------------------------------------------------------------
(* Access                                                                  *)

\* What KStringCStr returns: NULL (buf = -1, ptr = NULL), the scratch buffer
\* ShortBuffers[buf], or the out-of-line pointer ptr.
\* an access that hands out the first scratch buffer as it is
CStrWithoutCopy(Str, Buffers, Index) ==
    [ret |-> [buf |-> 0, ptr |-> NULL], ShortBuffers |-> Buffers, BufferIndex |-> Index]

KStringCStr(Str, Buffers, Index) ==
    IF ~KStringIsValid(Str)
    THEN [ret |-> [buf |-> -1, ptr |-> NULL], ShortBuffers |-> Buffers, BufferIndex |-> Index]
    ELSE IF KStringIsShort(Str)
    THEN LET Size == KS_GetSizeFromField(Str.Size)
         IN  [ret |-> [buf |-> Index, ptr |-> NULL],
              ShortBuffers |->
                  [Buffers EXCEPT ![Index] =
                      [i \in 1..(KSTRING_MAX_SHORT_LENGTH + 1) |->
                          IF i <= Size THEN Str.Content[i]
                          ELSE IF i = Size + 1 THEN 0
                          ELSE @[i]]],
              BufferIndex |-> (Index + 1) % 4]
    ELSE [ret |-> [buf |-> -1, ptr |-> KS_GetPointer(LongStrPtrAndClass(Str))],
          ShortBuffers |-> Buffers, BufferIndex |-> Index]

-----------------------------------------------------------------------------
(* The client program                                                      *)
(*                                                                         *)
(* A client holds up to two values it has constructed (a, b) and up to one *)
(* value an operation has derived from them (r); heap is the memory of the *)
(* process between two calls, last the record of the latest call.          *)

\* bounds of the exploration: the blocks the allocator can hand out, and the
\* most allocations a single call is let to make before calloc fails
ArenaBlocks == 4
MaxAllocs == 6

\* an empty register
Nil == [Size |-> <<>>, Content |-> <<>>]

\* an address below 2^16, or that address with bit 63 set
Addr(n, high) == <<n, 0, 0, IF high THEN 32768 ELSE 0>>

Arena(high) == {Addr(4096 + (16 * k), high) : k \in 1..ArenaBlocks}

\* a caller's array holding bytes, of cap bytes in all (the rest zero)
StaticBlock(bytes, cap) ==
    [kind |-> "static", live |-> TRUE, cap |-> cap, mem |-> MemOf(bytes)]

\* "Hello, World!ab", "HELLO, WORLD!AB", "Hello, Wurld!ab"
Hello == <<72, 101, 108, 108, 111, 44, 32, 87, 111, 114, 108, 100, 33, 97, 98>>
Upper == <<72, 69, 76, 76, 79, 44, 32, 87, 79, 82, 76, 68, 33, 65, 66>>
Wurld == <<72, 101, 108, 108, 111, 44, 32, 87, 117, 114, 108, 100, 33, 97, 98>>
\* "Big!" followed by zero bytes up to 2^30 bytes
Big == <<66, 105, 103, 33>>

\* the client's buffers, at addresses with or without bit 63
pHello(high) == Addr(256, high)
pUpper(high) == Addr(512, high)
pWurld(high) == Addr(768, high)
pBig(high) == Addr(1024, high)

TextBuffers(high) ==
    (pHello(high) :> StaticBlock(Hello, Len(Hello)))
    @@ (pUpper(high) :> StaticBlock(Upper, Len(Upper)))
    @@ (pWurld(high) :> StaticBlock(Wurld, Len(Wurld)))
    @@ (pBig(high) :> StaticBlock(Big, KSTRING_SIZE_MASK + 1))

\* the platform of a call that depends on none
AnyEnv == [unit |-> TRUE, charSigned |-> TRUE]

\* the platforms that memcmp tells apart, and those a comparison of plain
\* char values tells apart
MemcmpPlatforms == {Env \in Platforms : Env.charSigned}
CharPlatforms == {Env \in Platforms : Env.unit}

\* the arguments of a call: values x, y, pointer p, sizes n, m, encoding e
Call(op, x, y, p, n, m, e) ==
    [op |-> op, x |-> x, y |-> y, p |-> p, n |-> n, m |-> m, e |-> e]

NoCall == Call("none", Nil, Nil, NULL, W64(0), W64(0), KSTRING_ENCODING_UTF8)

\* How a call ends. Without undefined behaviour it returns ret. With it the
\* process is killed (crash) or the call returns one of the values garbage.
Outcomes(fault, ret, garbage) ==
    IF fault
    THEN {[crash |-> c, ret |-> g] : c \in BOOLEAN, g \in garbage}
    ELSE {[crash |-> FALSE, ret |-> ret]}

\* the record of a call c that ended as o, H the allocator state at its end
Log(c, Env, o, H) ==
    [op |-> c.op, x |-> c.x, y |-> c.y, p |-> c.p, n |-> c.n, m |-> c.m, e |-> c.e,
     env |-> Env, ret |-> o.ret, fault |-> H.fault, crash |-> o.crash, oom |-> H.oom,
     pre |-> heap]

\* the allocator state a call starts in: k further allocations succeed
Enter(k) == [blk |-> heap, left |-> k, fault |-> FALSE, oom |-> FALSE]

Running == ~last.crash

Reg(s) == IF s = "a" THEN a ELSE IF s = "b" THEN b ELSE r

Put(s, v) ==
    /\ a' = IF s = "a" THEN v ELSE a
    /\ b' = IF s = "b" THEN v ELSE b
    /\ r' = IF s = "r" THEN v ELSE r

\* the end of a call whose result res = [ret, H] goes to register s
Finish(c, s, res, garbage) ==
    \E o \in Outcomes(res.H.fault, res.ret, garbage) :
        /\ Put(s, IF o.crash THEN Reg(s) ELSE o.ret)
        /\ heap' = IF res.H.fault THEN heap ELSE res.H.blk
        /\ last' = Log(c, AnyEnv, o, res.H)
        /\ UNCHANGED <<ShortBuffers, BufferIndex>>

\* the end of a call that only answers: res = [ret, fault]
Answer(c, Env, res, garbage) ==
    \E o \in Outcomes(res.fault, res.ret, garbage) :
        /\ last' = Log(c, Env, o, [fault |-> res.fault, oom |-> FALSE])
        /\ UNCHANGED <<heap, a, b, r, ShortBuffers, BufferIndex>>

InitWith(buffers, high) ==
    /\ heap = [p \in Arena(high) |-> FreeBlock] @@ buffers
    /\ a = Nil
    /\ b = Nil
    /\ r = Nil
    /\ last = Log(NoCall, AnyEnv, [crash |-> FALSE, ret |-> Nil],
                  [fault |-> FALSE, oom |-> FALSE])
    /\ ShortBuffers = [i \in 0..3 |-> Zeros(KSTRING_MAX_SHORT_LENGTH + 1)]
    /\ BufferIndex = 0

-----------------------------------------------------------------------------
(* Actions: one per API function the client calls                          *)

\* x = KStringCreateWithEncoding(pStr, Size, Encoding) for an empty register x
CreateWithEncoding(Inputs, Slots) ==
    \E s \in Slots, in \in Inputs, k \in {0, 1} :
        /\ Running
        /\ Reg(s) = Nil
        /\ Finish(Call("KStringCreateWithEncoding", Nil, Nil, in.p, in.n, W64(0), in.e), s,
                  KStringCreateWithEncoding(Enter(k), View(Enter(k), in.p), in.n, in.e),
                  {KStringInvalid})

CreatePersistentWithEncoding(Inputs, Slots) ==
    \E s \in Slots, in \in Inputs :
        /\ Running
        /\ Reg(s) = Nil
        /\ Finish(Call("KStringCreatePersistentWithEncoding", Nil, Nil, in.p, in.n, W64(0),
                       in.e), s,
                  KStringCreatePersistentWithEncoding(Enter(0), in.p, in.n, in.e),
                  {KStringInvalid})

CreateTransientWithEncoding(Inputs, Slots) ==
    \E s \in Slots, in \in Inputs :
        /\ Running
        /\ Reg(s) = Nil
        /\ Finish(Call("KStringCreateTransientWithEncoding", Nil, Nil, in.p, in.n, W64(0),
                       in.e), s,
                  KStringCreateTransientWithEncoding(Enter(0), in.p, in.n, in.e),
                  {KStringInvalid})

\* x = KStringInvalid()
Invalid(Slots) ==
    \E s \in Slots :
        /\ Running
        /\ Reg(s) = Nil
        /\ Finish(Call("KStringInvalid", Nil, Nil, NULL, W64(0), W64(0), KSTRING_ENCODING_UTF8),
                  s, [ret |-> KStringInvalid, H |-> Enter(0)], {KStringInvalid})

\* KStringDestroy(x), after which the client forgets x
Destroy ==
    \E s \in {"a", "b", "r"} :
        /\ Running
        /\ Reg(s) # Nil
        /\ (s # "r" => r = Nil)
        /\ Finish(Call("KStringDestroy", Reg(s), Nil, NULL, W64(0), W64(0),
                       KSTRING_ENCODING_UTF8),
                  s, [ret |-> Nil, H |-> KStringDestroy(Enter(0), Reg(s))], {Nil})

\* the registers of a call on a alone, and of a call on a and b
Unary == Running /\ a # Nil /\ b = Nil /\ r = Nil
Binary == Running /\ a # Nil /\ b # Nil /\ r = Nil

\* KStringCStr(a)
CStr ==
    /\ Unary
    /\ LET res == KStringCStr(a, ShortBuffers, BufferIndex)
       IN  /\ ShortBuffers' = res.ShortBuffers
           /\ BufferIndex' = res.BufferIndex
           /\ last' = Log(Call("KStringCStr", a, Nil, NULL, W64(0), W64(0),
                               KSTRING_ENCODING_UTF8),
                          AnyEnv, [crash |-> FALSE, ret |-> res.ret],
                          [fault |-> FALSE, oom |-> FALSE])
    /\ UNCHANGED <<heap, a, b, r>>

Compare ==
    \E Env \in MemcmpPlatforms :
        /\ Binary
        /\ Answer(Call("KStringCompare", a, b, NULL, W64(0), W64(0), KSTRING_ENCODING_UTF8),
                  Env, KStringCompare(Enter(0), a, b, Env), {-1, 0, 1})

Equals ==
    \E Env \in MemcmpPlatforms :
        /\ Binary
        /\ Answer(Call("KStringEquals", a, b, NULL, W64(0), W64(0), KSTRING_ENCODING_UTF8),
                  Env, KStringEquals(Enter(0), a, b, Env), BOOLEAN)

StartsWith ==
    \E Env \in MemcmpPlatforms :
        /\ Binary
        /\ Answer(Call("KStringStartsWith", a, b, NULL, W64(0), W64(0),
                       KSTRING_ENCODING_UTF8),
                  Env, KStringStartsWith(Enter(0), a, b, Env), BOOLEAN)

CompareIgnoreCase ==
    \E Env \in CharPlatforms :
        /\ Binary
        /\ Answer(Call("KStringCompareIgnoreCase", a, b, NULL, W64(0), W64(0),
                       KSTRING_ENCODING_UTF8),
                  Env, KStringCompareIgnoreCase(Enter(0), a, b, Env), {-1, 0, 1})

EqualsIgnoreCase ==
    \E Env \in CharPlatforms :
        /\ Binary
        /\ Answer(Call("KStringEqualsIgnoreCase", a, b, NULL, W64(0), W64(0),
                       KSTRING_ENCODING_UTF8),
                  Env, KStringEqualsIgnoreCase(Enter(0), a, b, Env), BOOLEAN)

StartsWithIgnoreCase ==
    \E Env \in CharPlatforms :
        /\ Binary
        /\ Answer(Call("KStringStartsWithIgnoreCase", a, b, NULL, W64(0), W64(0),
                       KSTRING_ENCODING_UTF8),
                  Env, KStringStartsWithIgnoreCase(Enter(0), a, b, Env), BOOLEAN)

\* r = KStringConcat(a, b)
Concat ==
    \E k \in {0, 1} :
        /\ Binary
        /\ Finish(Call("KStringConcat", a, b, NULL, W64(0), W64(0), KSTRING_ENCODING_UTF8),
                  "r", KStringConcat(Enter(k), a, b), {KStringInvalid})

\* r = KStringSubstring(a, Offset, Size)
Substring(Offsets, Sizes) ==
    \E Offset \in Offsets, Size \in Sizes, k \in {0, 1} :
        /\ Unary
        /\ Finish(Call("KStringSubstring", a, Nil, NULL, Offset, Size, KSTRING_ENCODING_UTF8),
                  "r", KStringSubstring(Enter(k), a, Offset, Size), {KStringInvalid})

\* the arguments of a conversion of a
Converting(op) == Call(op, a, Nil, NULL, W64(0), W64(0), KSTRING_ENCODING_UTF8)

\* r = F(a) for each of the eight conversions F between two encodings; a
\* direct conversion allocates twice at most, a composed one four times
ConvertUtf8ToUtf16Le ==
    \E k \in 0..2 :
        /\ Unary
        /\ Finish(Converting("KStringConvertUtf8ToUtf16Le"), "r",
                  KStringConvertUtf8ToUtf16Le(Enter(k), a), {KStringInvalid})

ConvertUtf16LeToUtf8 ==
    \E k \in 0..2 :
        /\ Unary
        /\ Finish(Converting("KStringConvertUtf16LeToUtf8"), "r",
                  KStringConvertUtf16LeToUtf8(Enter(k), a), {KStringInvalid})

ConvertUtf8ToUtf16Be ==
    \E k \in 0..4 :
        /\ Unary
        /\ Finish(Converting("KStringConvertUtf8ToUtf16Be"), "r",
                  KStringConvertUtf8ToUtf16Be(Enter(k), a), {KStringInvalid})

ConvertUtf16BeToUtf8 ==
    \E k \in 0..4 :
        /\ Unary
        /\ Finish(Converting("KStringConvertUtf16BeToUtf8"), "r",
                  KStringConvertUtf16BeToUtf8(Enter(k), a), {KStringInvalid})

ConvertUtf16LeToUtf16Be ==
    \E k \in 0..2 :
        /\ Unary
        /\ Finish(Converting("KStringConvertUtf16LeToUtf16Be"), "r",
                  KStringConvertUtf16LeToUtf16Be(Enter(k), a), {KStringInvalid})

ConvertUtf16BeToUtf16Le ==
    \E k \in 0..2 :
        /\ Unary
        /\ Finish(Converting("KStringConvertUtf16BeToUtf16Le"), "r",
                  KStringConvertUtf16BeToUtf16Le(Enter(k), a), {KStringInvalid})

ConvertUtf8ToAnsi ==
    \E k \in 0..2 :
        /\ Unary
        /\ Finish(Converting("KStringConvertUtf8ToAnsi"), "r",
                  KStringConvertUtf8ToAnsi(Enter(k), a), {KStringInvalid})

ConvertAnsiToUtf8 ==
    \E k \in 0..2 :
        /\ Unary
        /\ Finish(Converting("KStringConvertAnsiToUtf8"), "r",
                  KStringConvertAnsiToUtf8(Enter(k), a), {KStringInvalid})

\* r = KStringConvertToEncoding(a, TargetEncoding)
ConvertToEncoding ==
    \E TargetEncoding \in KStringEncoding, k \in 0..MaxAllocs :
        /\ Unary
        /\ Finish(Call("KStringConvertToEncoding", a, Nil, NULL, W64(0), W64(0),
                       TargetEncoding),
                  "r", KStringConvertToEncoding(Enter(k), a, TargetEncoding),
                  {KStringInvalid})

-----------------------------------------------------------------------------
(* The client of construction, comparison, concatenation and substring     *)

\* what the client constructs copies from: prefixes of its buffers, the
\* 2^30-byte buffer at and around the size cap, and a null pointer
TextInputs(high) ==
    {[p |-> pHello(high), n |-> W64(k), e |-> KSTRING_ENCODING_UTF8] :
        k \in {0, 1, 4, 5, 12, 13, 15}}
    \cup {[p |-> pHello(high), n |-> W64(k), e |-> KSTRING_ENCODING_ANSI] : k \in {5, 13}}
    \cup {[p |-> pUpper(high), n |-> W64(k), e |-> KSTRING_ENCODING_UTF8] : k \in {5, 13}}
    \cup {[p |-> pWurld(high), n |-> W64(13), e |-> KSTRING_ENCODING_UTF8]}

CapInputs ==
    {[p |-> pBig(FALSE), n |-> W64(KSTRING_SIZE_MASK - 1), e |-> KSTRING_ENCODING_ANSI],
     [p |-> pBig(FALSE), n |-> W64(KSTRING_SIZE_MASK), e |-> KSTRING_ENCODING_UTF8],
     [p |-> pBig(FALSE), n |-> W64(KSTRING_SIZE_MASK), e |-> KSTRING_ENCODING_ANSI],
     [p |-> pBig(FALSE), n |-> W64(KSTRING_SIZE_MASK + 1), e |-> KSTRING_ENCODING_UTF8],
     [p |-> NULL, n |-> W64(5), e |-> KSTRING_ENCODING_UTF8]}

CoreInputs == TextInputs(FALSE) \cup CapInputs

\* what the client wraps without copying
WrapInputs(high) ==
    {[p |-> pHello(high), n |-> W64(k), e |-> KSTRING_ENCODING_UTF8] : k \in {5, 15}}
    \cup {[p |-> pBig(high), n |-> W64(KSTRING_SIZE_MASK - 1), e |-> KSTRING_ENCODING_ANSI],
          [p |-> NULL, n |-> W64(5), e |-> KSTRING_ENCODING_UTF8]}

\* offsets and lengths asked of KStringSubstring, as size_t
CoreOffsets == {W64(n) : n \in {0, 1, 5, 13, 15}} \cup {SIZE_MAX}
CoreSizes == {W64(n) : n \in {0, 1, 4, 12, 13, 15}} \cup {SIZE_MAX}

Init == InitWith(TextBuffers(FALSE), FALSE)

Next ==
    \/ CreateWithEncoding(CoreInputs, {"a", "b"})
    \/ CreatePersistentWithEncoding(WrapInputs(FALSE), {"a", "b"})
    \/ CreateTransientWithEncoding(WrapInputs(FALSE), {"a", "b"})
    \/ Destroy
    \/ Compare
    \/ Equals
    \/ StartsWith
    \/ CompareIgnoreCase
    \/ EqualsIgnoreCase
    \/ StartsWithIgnoreCase
    \/ Concat
    \/ Substring(CoreOffsets, CoreSizes)

Spec == Init /\ [][Next]_vars

-----------------------------------------------------------------------------
(* Properties of substring, prefix test, comparison and concatenation      *)

\* the n bytes of a byte map from offset off on, as a byte map
Slice(mem, off, n) ==
    [o \in {x - off : x \in {y \in DOMAIN mem : y >= off /\ y < off + n}} |-> mem[o + off]]

\* the byte map m1 of n1 bytes followed by the byte map m2
Join(m1, n1, m2) ==
    [o \in DOMAIN m1 \cup {x + n1 : x \in DOMAIN m2} |->
        IF o < n1 THEN m1[o] ELSE m2[o - n1]]

\* the bytes of the valid value Str in the memory blk
DataOf(blk, Str) == Slice(KS_Data([blk |-> blk], Str).mem, 0, KStringSize(Str))

\* the data of Str is there: Str is short or refers to an object of its size
Backed(blk, Str) == KS_Data([blk |-> blk], Str).cap >= KStringSize(Str)

\* the allocator state of a call made in the memory blk with k allocations
Within(blk, k) == [blk |-> blk, left |-> k, fault |-> FALSE, oom |-> FALSE]

\* C7: for a valid s and any offset and length in size_t, wrapping sums
\* included, KStringSubstring(s, offset, len) is invalid when
\* offset >= size(s), and otherwise a valid value of min(len, size(s) - offset)
\* bytes, the bytes of s from offset on, with the encoding tag of s.
\* (Stated for the calls in which no allocation was refused.)
C7_SubstringClampsOverSizeT ==
    (last.op = "KStringSubstring" /\ KStringIsValid(last.x) /\ ~last.oom) =>
        LET size == KStringSize(last.x)
            avail == size - WNat(last.n)
            want == IF WLt(last.m, W64(avail)) THEN WNat(last.m) ELSE avail
        IN  /\ ~last.fault
            /\ IF WGe(last.n, W64(size))
               THEN ~KStringIsValid(last.ret)
               ELSE /\ KStringIsValid(last.ret)
                    /\ KStringSize(last.ret) = want
                    /\ Backed(heap, last.ret)
                    /\ DataOf(heap, last.ret)
                           = Slice(DataOf(last.pre, last.x), WNat(last.n), want)
                    /\ KStringGetEncoding(last.ret) = KStringGetEncoding(last.x)

\* KStringEquals(KStringSubstring(s, 0, size(p)), p) evaluated in the memory
\* of the latest call, the allocator granting k allocations
EqualsSubstring(k) ==
    LET Sub == KStringSubstring(Within(last.pre, k), last.x, W64(0),
                                W64(KStringSize(last.y)))
        Eq == KStringEquals(Sub.H, Sub.ret, last.y, last.env)
    IN  [ret |-> Eq.ret, fault |-> Sub.H.fault \/ Eq.fault, oom |-> Sub.H.oom,
         valid |-> KStringIsValid(Sub.ret)]

PrefixCase ==
    /\ last.op = "KStringStartsWith"
    /\ KStringIsValid(last.x)
    /\ KStringIsValid(last.y)
    /\ KStringSize(last.y) <= KStringSize(last.x)

LowerValue(Str) ==
    IF KStringIsShort(Str)
    THEN [Size |-> Str.Size,
          Content |-> [i \in 1..KSTRING_MAX_SHORT_LENGTH |-> KS_ToLowerAscii(Str.Content[i])]]
    ELSE [Size |-> Str.Size,
          Content |-> LongStr([i \in 1..4 |-> KS_ToLowerAscii(Str.Content[i])],
                              LongStrPtrAndClass(Str))]

LowerMemory(blk) ==
    [p \in DOMAIN blk |->
        [blk[p] EXCEPT !.mem = [o \in DOMAIN blk[p].mem |-> KS_ToLowerAscii(blk[p].mem[o])]]]

\* C9: for valid a and b under any encoding tags, KStringCompareIgnoreCase
\* has the sign of KStringCompare on a and b with every byte 'A'..'Z' made
\* lower case.
C9_IgnoreCaseIsCompareOfLowered ==
    (last.op = "KStringCompareIgnoreCase" /\ KStringIsValid(last.x) /\ KStringIsValid(last.y)) =>
        LET Lowered == KStringCompare(Within(LowerMemory(last.pre), 0),
                                      LowerValue(last.x), LowerValue(last.y), last.env)
        IN  /\ ~last.fault
            /\ ~Lowered.fault
            /\ Sign(last.ret) = Sign(Lowered.ret)

\* C10: for valid a and b with size(a) + size(b) <= 2^30-1, KStringConcat(a, b)
\* is valid, has size(a) + size(b) bytes, the bytes of a followed by those of
\* b, and the encoding tag of a. (Stated for the calls in which no allocation
\* was refused.)
C10_ConcatJoinsBelowCap ==
    (/\ last.op = "KStringConcat"
     /\ KStringIsValid(last.x)
     /\ KStringIsValid(last.y)
     /\ KStringSize(last.x) + KStringSize(last.y) <= KSTRING_SIZE_MASK
     /\ ~last.oom) =>
        /\ ~last.fault
        /\ KStringIsValid(last.ret)
        /\ KStringSize(last.ret) = KStringSize(last.x) + KStringSize(last.y)
        /\ Backed(heap, last.ret)
        /\ DataOf(heap, last.ret)
               = Join(DataOf(last.pre, last.x), KStringSize(last.x), DataOf(last.pre, last.y))
        /\ KStringGetEncoding(last.ret) = KStringGetEncoding(last.x)

-----------------------------------------------------------------------------
(* The client of the encoding conversions                                  *)

\* "ABCDEFGHIJKLMN"; "e-acute, euro sign, A" and "grinning face, A" in UTF-8;
\* "ABCDEFG" in UTF-16LE; a surrogate pair, a lone high surrogate and "A" in
\* UTF-16LE; "caf" and e-acute in Latin-1
Ascii == <<65, 66, 67, 68, 69, 70, 71, 72, 73, 74, 75, 76, 77, 78>>
Mixed == <<195, 169, 226, 130, 172, 65>>
Emoji == <<240, 159, 152, 128, 65>>
Wide == <<65, 0, 66, 0, 67, 0, 68, 0, 69, 0, 70, 0, 71, 0>>
Pair == <<61, 216, 0, 222, 61, 216, 65, 0>>
Latin == <<99, 97, 102, 233>>

pAscii == Addr(256, FALSE)
pMixed == Addr(512, FALSE)
pEmoji == Addr(768, FALSE)
pWide == Addr(1024, FALSE)
pPair == Addr(1280, FALSE)
pLatin == Addr(1536, FALSE)

ConvBuffers ==
    (pAscii :> StaticBlock(Ascii, Len(Ascii)))
    @@ (pMixed :> StaticBlock(Mixed, Len(Mixed)))
    @@ (pEmoji :> StaticBlock(Emoji, Len(Emoji)))
    @@ (pWide :> StaticBlock(Wide, Len(Wide)))
    @@ (pPair :> StaticBlock(Pair, Len(Pair)))
    @@ (pLatin :> StaticBlock(Latin, Len(Latin)))

ConvInputs ==
    {[p |-> pAscii, n |-> W64(k), e |-> KSTRING_ENCODING_UTF8] : k \in {0, 1, 2, 9, 14}}
    \cup {[p |-> pMixed, n |-> W64(k), e |-> KSTRING_ENCODING_UTF8] : k \in {1, 2, 5, 6}}
    \cup {[p |-> pEmoji, n |-> W64(k), e |-> KSTRING_ENCODING_UTF8] : k \in {4, 5}}
    \cup {[p |-> pWide, n |-> W64(k), e |-> KSTRING_ENCODING_UTF16LE] : k \in {0, 2, 3, 4, 14}}
    \cup {[p |-> pPair, n |-> W64(k), e |-> KSTRING_ENCODING_UTF16LE] : k \in {4, 6, 8}}
    \cup {[p |-> pWide, n |-> W64(k), e |-> KSTRING_ENCODING_UTF16BE] : k \in {0, 2, 14}}
    \cup {[p |-> pLatin, n |-> W64(k), e |-> KSTRING_ENCODING_ANSI] : k \in {0, 1, 4}}
    \cup {[p |-> pAscii, n |-> W64(9), e |-> KSTRING_ENCODING_ANSI]}

ConvWrapInputs ==
    {[p |-> pAscii, n |-> W64(14), e |-> KSTRING_ENCODING_UTF8],
     [p |-> pWide, n |-> W64(14), e |-> KSTRING_ENCODING_UTF16LE]}

InitConv == InitWith(ConvBuffers, FALSE)

NextConv ==
    \/ CreateWithEncoding(ConvInputs, {"a"})
    \/ CreatePersistentWithEncoding(ConvWrapInputs, {"a"})
    \/ CreateTransientWithEncoding(ConvWrapInputs, {"a"})
    \/ Destroy
    \/ ConvertUtf8ToUtf16Le
    \/ ConvertUtf16LeToUtf8
    \/ ConvertUtf8ToUtf16Be
    \/ ConvertUtf16BeToUtf8
    \/ ConvertUtf16LeToUtf16Be
    \/ ConvertUtf16BeToUtf16Le
    \/ ConvertUtf8ToAnsi
    \/ ConvertAnsiToUtf8
    \/ ConvertToEncoding

SpecConv == InitConv /\ [][NextConv]_vars

-----------------------------------------------------------------------------
(* Properties of the encoding conversions                                  *)

\* bytes[i..n] is well-formed UTF-8 of code points below 2^16: one byte
\* below 0x80, two bytes C2..DF 80..BF, or three bytes E0..EF 80..BF 80..BF
\* that encode neither a value below 0x800 nor a surrogate
Continuation(c) == c >= 128 /\ c <= 191

RECURSIVE WellFormedBmp(_, _)
WellFormedBmp(bytes, i) ==
    IF i > Len(bytes) THEN TRUE
    ELSE IF bytes[i] < 128 THEN WellFormedBmp(bytes, i + 1)
    ELSE IF bytes[i] >= 194 /\ bytes[i] <= 223
    THEN i + 1 <= Len(bytes) /\ Continuation(bytes[i + 1]) /\ WellFormedBmp(bytes, i + 2)
    ELSE IF bytes[i] >= 224 /\ bytes[i] <= 239
    THEN /\ i + 2 <= Len(bytes)
         /\ Continuation(bytes[i + 1])
         /\ Continuation(bytes[i + 2])
         /\ (bytes[i] = 224 => bytes[i + 1] >= 160)
         /\ (bytes[i] = 237 => bytes[i + 1] <= 159)
         /\ WellFormedBmp(bytes, i + 3)
    ELSE FALSE

\* the bytes of a valid value of at most a few bytes, as a sequence
BytesOf(blk, Str) == Bytes(KS_Data([blk |-> blk], Str).mem, 0, KStringSize(Str))

\* the bytes with every pair of neighbours exchanged (an even number of them)
Swapped(bytes) ==
    [i \in 1..Len(bytes) |-> IF i % 2 = 1 THEN bytes[i + 1] ELSE bytes[i - 1]]

\* C3: for a UTF-8 value x of well-formed UTF-8 with code points below 2^16
\* (pure ASCII and one-byte inputs included),
\* KStringConvertUtf16LeToUtf8(KStringConvertUtf8ToUtf16Le(x)) is a valid
\* UTF-8 value with the length and the bytes of x. (Stated for the calls in
\* which no allocation is refused.)
C3_Utf8RoundTripThroughUtf16Le ==
    (/\ last.op = "KStringConvertUtf8ToUtf16Le"
     /\ KStringIsValid(last.x)
     /\ KStringGetEncoding(last.x) = KSTRING_ENCODING_UTF8
     /\ Backed(last.pre, last.x)
     /\ WellFormedBmp(BytesOf(last.pre, last.x), 1)
     /\ ~last.oom) =>
        LET Back == KStringConvertUtf16LeToUtf8(Within(heap, 2), last.ret)
        IN  Back.H.oom
            \/ /\ ~last.fault
               /\ ~Back.H.fault
               /\ KStringIsValid(Back.ret)
               /\ KStringGetEncoding(Back.ret) = KSTRING_ENCODING_UTF8
               /\ KStringSize(Back.ret) = KStringSize(last.x)
               /\ Backed(Back.H.blk, Back.ret)
               /\ BytesOf(Back.H.blk, Back.ret) = BytesOf(last.pre, last.x)

\* C4: for a UTF-16LE value x of even byte length (0 included),
\* KStringConvertUtf16LeToUtf16Be(x) is x with the two bytes of every unit
\* exchanged, and KStringConvertUtf16BeToUtf16Le of it is a valid UTF-16LE
\* value with the length and the bytes of x. (Stated for the calls in which
\* no allocation is refused.)
C4_ByteOrderRoundTrip ==
    (/\ last.op = "KStringConvertUtf16LeToUtf16Be"
     /\ KStringIsValid(last.x)
     /\ KStringGetEncoding(last.x) = KSTRING_ENCODING_UTF16LE
     /\ KStringSize(last.x) % 2 = 0
     /\ Backed(last.pre, last.x)
     /\ ~last.oom) =>
        LET Back == KStringConvertUtf16BeToUtf16Le(Within(heap, 2), last.ret)
        IN  Back.H.oom
            \/ /\ ~last.fault
               /\ KStringIsValid(last.ret)
               /\ KStringGetEncoding(last.ret) = KSTRING_ENCODING_UTF16BE
               /\ Backed(heap, last.ret)
               /\ BytesOf(heap, last.ret) = Swapped(BytesOf(last.pre, last.x))
               /\ ~Back.H.fault
               /\ KStringIsValid(Back.ret)
               /\ KStringGetEncoding(Back.ret) = KSTRING_ENCODING_UTF16LE
               /\ Backed(Back.H.blk, Back.ret)
               /\ BytesOf(Back.H.blk, Back.ret) = BytesOf(last.pre, last.x)

\* the allocator blocks in use in the memory blk
InUse(blk) == {p \in DOMAIN blk : blk[p].kind = "heap" /\ blk[p].live}

\* the allocator block a value owns
OwnedBy(Str) ==
    IF /\ KStringIsValid(Str)
       /\ ~KStringIsShort(Str)
       /\ KS_GetStorageClass(LongStrPtrAndClass(Str)) = KSTRING_TEMPORARY
    THEN {KS_GetPointer(LongStrPtrAndClass(Str))}
    ELSE {}

Conversions ==
    {"KStringConvertUtf8ToUtf16Le", "KStringConvertUtf16LeToUtf8",
     "KStringConvertUtf8ToUtf16Be", "KStringConvertUtf16BeToUtf8",
     "KStringConvertUtf16LeToUtf16Be", "KStringConvertUtf16BeToUtf16Le",
     "KStringConvertUtf8ToAnsi", "KStringConvertAnsiToUtf8", "KStringConvertToEncoding"}

\* C5: when a conversion returns, with a value or with the invalid value,
\* the only block it has allocated that is still in use is the one the
\* value it returns owns.
C5_ConversionsLeakNothing ==
    (last.op \in Conversions /\ ~last.fault) =>
        InUse(heap) \ InUse(last.pre) \subseteq OwnedBy(last.ret)

-----------------------------------------------------------------------------
(* The client on a platform whose addresses have bit 63 set                *)

\* a short and a long prefix of "Hello, World!ab" to copy, a long one to wrap
HighInputs ==
    {[p |-> pHello(TRUE), n |-> W64(k), e |-> KSTRING_ENCODING_UTF8] : k \in {12, 13}}

HighWrapInputs ==
    {[p |-> pHello(TRUE), n |-> W64(15), e |-> KSTRING_ENCODING_UTF8]}

InitHigh == InitWith(TextBuffers(TRUE), TRUE)

NextHigh ==
    \/ CreateWithEncoding(HighInputs, {"a", "b"})
    \/ CreatePersistentWithEncoding(HighWrapInputs, {"a", "b"})
    \/ CreateTransientWithEncoding(HighWrapInputs, {"a", "b"})
    \/ Destroy
    \/ Concat
    \/ Substring(CoreOffsets, CoreSizes)

SpecHigh == InitHigh /\ [][NextHigh]_vars

Builders ==
    {"KStringCreateWithEncoding", "KStringCreatePersistentWithEncoding",
     "KStringCreateTransientWithEncoding", "KStringConcat", "KStringSubstring"}

\* C6: where every address a tagged reference could hold has one of its top
\* two bits set (every buffer and every allocator block of this client), an
\* operation that builds a value returns no valid long value, so none with a
\* zeroed or corrupted reference, and leaves no block it allocated in use.
C6_HighAddressGivesInvalid ==
    (last.op \in Builders /\ ~last.fault) =>
        /\ KStringIsValid(last.ret) => KStringIsShort(last.ret)
        /\ InUse(heap) = InUse(last.pre)

-----------------------------------------------------------------------------
(* The client that passes the invalid value on                             *)

SmallInputs ==
    {[p |-> pHello(FALSE), n |-> W64(k), e |-> KSTRING_ENCODING_UTF8] : k \in {5, 13}}

SmallOffsets == {W64(0), W64(5)}
SmallSizes == {W64(1), W64(13)}

InitInvalid == InitWith(TextBuffers(FALSE), FALSE)

NextInvalid ==
    \/ Invalid({"a", "b"})
    \/ CreateWithEncoding(SmallInputs, {"a", "b"})
    \/ Destroy
    \/ CStr
    \/ Compare
    \/ Equals
    \/ StartsWith
    \/ CompareIgnoreCase
    \/ EqualsIgnoreCase
    \/ StartsWithIgnoreCase
    \/ Concat
    \/ Substring(SmallOffsets, SmallSizes)
    \/ ConvertUtf8ToUtf16Le
    \/ ConvertUtf16LeToUtf8
    \/ ConvertUtf8ToUtf16Be
    \/ ConvertUtf16BeToUtf8
    \/ ConvertUtf16LeToUtf16Be
    \/ ConvertUtf16BeToUtf16Le
    \/ ConvertUtf8ToAnsi
    \/ ConvertAnsiToUtf8
    \/ ConvertToEncoding

SpecInvalid == InitInvalid /\ [][NextInvalid]_vars

Comparisons ==
    {"KStringCompare", "KStringEquals", "KStringStartsWith", "KStringCompareIgnoreCase",
     "KStringEqualsIgnoreCase", "KStringStartsWithIgnoreCase"}

\* C1: an operation given the invalid value as an input ends without
\* undefined behaviour: Concat, Substring and the conversions return the
\* invalid value, KStringCStr returns NULL, and the comparisons and prefix
\* tests read nothing through the null reference of the invalid value.
C1_InvalidInputNeverFaults ==
    (/\ last.op \in Comparisons \cup Conversions
                    \cup {"KStringConcat", "KStringSubstring", "KStringCStr"}
     /\ (~KStringIsValid(last.x) \/ ~KStringIsValid(last.y))) =>
        /\ ~last.fault
        /\ last.op \in Conversions \cup {"KStringConcat", "KStringSubstring"}
               => ~KStringIsValid(last.ret)
        /\ last.op = "KStringCStr" => last.ret = [buf |-> -1, ptr |-> NULL]

-----------------------------------------------------------------------------
(* The size/encoding codec on its own                                      *)

\* byte lengths as size_t: small ones, the ones around the 30-bit cap, and
\* ones beyond 31, 32 and 62 bits
CodecSizes ==
    {W64(n) : n \in {0, 1, 12, 13, 255, 65535, 65536, KSTRING_SIZE_MASK - 1,
                     KSTRING_SIZE_MASK, KSTRING_SIZE_MASK + 1, 2147483647}}
    \cup {<<0, 32768, 0, 0>>, <<65535, 65535, 0, 0>>, <<0, 0, 1, 0>>, <<5, 0, 1, 0>>,
          <<0, 0, 0, 16384>>, SIZE_MAX}

InitCodec ==
    /\ heap = [p \in Arena(FALSE) |-> FreeBlock]
    /\ a = Nil
    /\ b = Nil
    /\ r = Nil
    /\ \E Size \in CodecSizes, Encoding \in KStringEncoding :
           last = Log(Call("input", Nil, Nil, NULL, Size, W64(0), Encoding), AnyEnv,
                      [crash |-> FALSE, ret |-> W32(0)], [fault |-> FALSE, oom |-> FALSE])
    /\ ShortBuffers = [i \in 0..3 |-> Zeros(KSTRING_MAX_SHORT_LENGTH + 1)]
    /\ BufferIndex = 0

\* SizeField = KS_CreateSizeField(Size, Encoding)
CreateSizeField ==
    /\ last.op = "input"
    /\ last' = [last EXCEPT !.op = "KS_CreateSizeField",
                            !.ret = KS_CreateSizeField(last.n, last.e)]
    /\ UNCHANGED <<heap, a, b, r, ShortBuffers, BufferIndex>>

\* KS_GetSizeFromField(SizeField) and KS_GetEncodingFromField(SizeField),
\* kept in m and e next to the field they were read from
GetFromField ==
    /\ last.op = "KS_CreateSizeField"
    /\ last' = [last EXCEPT !.op = "KS_GetFromField",
                            !.m = W64(KS_GetSizeFromField(last.ret)),
                            !.e = KS_GetEncodingFromField(last.ret),
                            !.x = [Size |-> last.n, Content |-> <<last.e>>]]
    /\ UNCHANGED <<heap, a, b, r, ShortBuffers, BufferIndex>>

NextCodec ==
    \/ CreateSizeField
    \/ GetFromField

SpecCodec == InitCodec /\ [][NextCodec]_vars

\* C2: packing a byte length L <= 2^30-1 with any of the four encoding tags
\* gives a field other than the sentinel 0xFFFFFFFF from which the length and
\* the tag are read back unchanged, and packing gives the sentinel exactly
\* when L > 2^30-1.
C2_PackIsInjectiveBelowCap ==
    last.op = "KS_GetFromField" =>
        LET L == last.x.Size
            E == last.x.Content[1]
            InRange == WLe(L, W64(KSTRING_SIZE_MASK))
        IN  /\ InRange => /\ last.ret # KSTRING_INVALID_LENGTH
                          /\ last.m = L
                          /\ last.e = E
            /\ (last.ret = KSTRING_INVALID_LENGTH) <=> ~InRange

-----------------------------------------------------------------------------
(* The client that builds values around the 12-byte boundary               *)

\* prefixes of "Hello, World!ab" to copy: two that add up to 12, the two
\* lengths at the boundary, and the longer of these under a second tag
LayoutInputs ==
    {[p |-> pHello(FALSE), n |-> W64(k), e |-> KSTRING_ENCODING_UTF8] : k \in {5, 7, 12, 13}}
    \cup {[p |-> pHello(FALSE), n |-> W64(13), e |-> KSTRING_ENCODING_ANSI]}

\* what the client wraps: 12 and 13 bytes of a 15-byte array
LayoutWrapInputs ==
    {[p |-> pHello(FALSE), n |-> W64(k), e |-> KSTRING_ENCODING_UTF8] : k \in {12, 13}}

NextLayout ==
    \/ CreateWithEncoding(LayoutInputs, {"a", "b"})
    \/ CreatePersistentWithEncoding(LayoutWrapInputs, {"a"})
    \/ CreateTransientWithEncoding(LayoutWrapInputs, {"a"})
    \/ Destroy
    \/ Concat
    \/ Substring({W64(0), W64(1)}, {W64(12), W64(13)})
    \/ ConvertUtf8ToUtf16Le
    \/ ConvertUtf16LeToUtf8
    \/ ConvertUtf8ToUtf16Be
    \/ ConvertUtf16BeToUtf8
    \/ ConvertUtf16LeToUtf16Be
    \/ ConvertUtf16BeToUtf16Le
    \/ ConvertUtf8ToAnsi
    \/ ConvertAnsiToUtf8
    \/ ConvertToEncoding

SpecLayout == Init /\ [][NextLayout]_vars

Constructors ==
    {"KStringCreateWithEncoding", "KStringCreatePersistentWithEncoding",
     "KStringCreateTransientWithEncoding"}

\* C11: a valid value returned by a constructor, by KStringConcat, by
\* KStringSubstring or by a conversion is short exactly when its byte length
\* is at most 12; a constructor returns the length it was asked for and
\* KStringConcat the sum of the two lengths, so 12 bytes are short, 13 bytes
\* are long and a concatenation of 12 bytes in all is short.
C11_ShortExactlyUpTo12 ==
    (/\ last.op \in Builders \cup Conversions
     /\ ~last.fault
     /\ KStringIsValid(last.ret)) =>
        /\ KStringIsShort(last.ret) <=> KStringSize(last.ret) <= 12
        /\ last.op \in Constructors => KStringSize(last.ret) = WNat(last.n)
        /\ last.op = "KStringConcat"
               => KStringSize(last.ret) = KStringSize(last.x) + KStringSize(last.y)

\* a concatenation of 5 and 7 bytes that came out short
C11_Witness ==
    /\ last.op = "KStringConcat"
    /\ KStringSize(last.x) = 5
    /\ KStringSize(last.y) = 7
    /\ KStringIsValid(last.ret)
    /\ KStringSize(last.ret) = 12
    /\ KStringIsShort(last.ret)

-----------------------------------------------------------------------------
(* Ownership of the out-of-line buffers                                    *)

\* C12: KStringDestroy of a Temporary long value frees the block the value
\* refers to and leaves every other block as it was; of any other value it
\* leaves the whole memory as it was; no call of it frees a block that is not
\* allocated. Once the client has destroyed every value that
\* KStringCreateWithEncoding, the wrapping constructors, KStringConcat and
\* KStringSubstring returned to it, no allocator block is in use.
C12_DestroyFreesExactlyOnce ==
    /\ last.op = "KStringDestroy" =>
           /\ ~last.fault
           /\ \A p \in DOMAIN heap :
                  IF p \in OwnedBy(last.x)
                  THEN last.pre[p].live /\ heap[p] = FreeBlock
                  ELSE heap[p] = last.pre[p]
    /\ (a = Nil /\ b = Nil /\ r = Nil /\ ~last.fault) => InUse(heap) = {}

\* the memory blk after KStringDestroy of each of the values in the sequence
\* strs, and whether one of the calls was undefined
RECURSIVE DestroyAll(_, _)
DestroyAll(H, strs) ==
    IF strs = <<>> THEN H
    ELSE DestroyAll(KStringDestroy(H, Head(strs)), Tail(strs))

\* the values a call was given
InputsOf(c) == IF c.y = Nil THEN <<c.x>> ELSE <<c.x, c.y>>

\* C13: a long value returned by KStringConcat or KStringSubstring refers,
\* with storage class Temporary, to a block allocated by that call, which is
\* the block of none of the inputs (also for a substring that covers a whole
\* long source); destroying the inputs leaves the bytes of the result as they
\* are, and destroying the result frees its own block and no other.
C13_DerivedValuesOwnFreshBuffer ==
    (/\ last.op \in {"KStringConcat", "KStringSubstring"}
     /\ ~last.fault
     /\ KStringIsValid(last.ret)
     /\ ~KStringIsShort(last.ret)) =>
        LET p == KS_GetPointer(LongStrPtrAndClass(last.ret))
            After == DestroyAll(Within(heap, 0), InputsOf(last))
            Gone == KStringDestroy(Within(heap, 0), last.ret)
        IN  /\ KS_GetStorageClass(LongStrPtrAndClass(last.ret)) = KSTRING_TEMPORARY
            /\ p \in InUse(heap) \ InUse(last.pre)
            /\ \A i \in DOMAIN InputsOf(last) :
                   KStringIsShort(InputsOf(last)[i])
                   \/ p # KS_GetPointer(LongStrPtrAndClass(InputsOf(last)[i]))
            /\ ~After.fault
            /\ Backed(After.blk, last.ret)
            /\ DataOf(After.blk, last.ret) = DataOf(heap, last.ret)
            /\ ~Gone.fault
            /\ InUse(Gone.blk) = InUse(heap) \ {p}

-----------------------------------------------------------------------------
(* The client that copies values                                           *)

\* b = a: the assignment of the 16-byte struct
Copy ==
    /\ Running
    /\ a # Nil
    /\ b = Nil
    /\ Finish(Call("copy", a, Nil, NULL, W64(0), W64(0), KSTRING_ENCODING_UTF8), "b",
              [ret |-> a, H |-> Enter(0)], {a})

AliasInputs ==
    {[p |-> pHello(FALSE), n |-> W64(k), e |-> KSTRING_ENCODING_UTF8] : k \in {5, 13, 15}}
    \cup {[p |-> pUpper(FALSE), n |-> W64(13), e |-> KSTRING_ENCODING_UTF8]}

NextAlias ==
    \/ CreateWithEncoding(AliasInputs, {"a", "b"})
    \/ CreatePersistentWithEncoding(AliasInputs, {"a"})
    \/ Copy
    \/ Destroy
    \/ Equals

SpecAlias == Init /\ [][NextAlias]_vars

\* what a call of KStringDestroy does to the block that the Temporary long
\* value it is given refers to: it frees it when it is allocated, and is
\* undefined (a second free) when it is not
FreesOrFaults ==
    OwnedBy(last'.x) # {} =>
        \A p \in OwnedBy(last'.x) :
            IF heap[p].live
            THEN ~last'.fault /\ ~heap'[p].live
            ELSE last'.fault

\* C14: the copy of a value is the same 16 bytes and allocates nothing, so
\* the copy of a Temporary long value refers to the block of the original;
\* KStringDestroy of one of them leaves the bytes of every other value the
\* client holds as they are, the other copy then refers to a freed block,
\* and KStringDestroy of that copy frees the block a second time.
C14_CopiesShareTheBuffer ==
    [][/\ last'.op = "copy" => (b' = a /\ a' = a /\ heap' = heap)
       /\ last'.op = "KStringDestroy" =>
              /\ a' \in {a, Nil}
              /\ b' \in {b, Nil}
              /\ FreesOrFaults]_vars

\* the second KStringDestroy on two copies of a Temporary long value
C14_Witness ==
    /\ last.op = "KStringDestroy"
    /\ last.fault
    /\ OwnedBy(last.x) # {}
    /\ \A p \in OwnedBy(last.x) : ~last.pre[p].live

-----------------------------------------------------------------------------
(* The terminator of out-of-line buffers                                   *)

\* C15: a long value returned by a constructor, by KStringConcat, by
\* KStringSubstring or by a conversion, of whatever storage class, refers to
\* an object that has a byte at index `length`, and that byte is 0: the
\* pointer KStringCStr returns for the value is a terminated string.
C15_LongBufferIsTerminated ==
    (/\ last.op \in Builders \cup Conversions
     /\ ~last.fault
     /\ KStringIsValid(last.ret)
     /\ ~KStringIsShort(last.ret)) =>
        LET view == View([blk |-> heap],
                         KStringCStr(last.ret, ShortBuffers, BufferIndex).ret.ptr)
        IN  /\ view.cap > KStringSize(last.ret)
            /\ At(view.mem, KStringSize(last.ret)) = 0

-----------------------------------------------------------------------------
(* The client that asks for terminated views                               *)

\* short values of two lengths, and a long one
ViewInputs ==
    {[p |-> pHello(FALSE), n |-> W64(k), e |-> KSTRING_ENCODING_UTF8] : k \in {5, 12, 13}}

NextView ==
    \/ CreateWithEncoding(ViewInputs, {"a"})
    \/ Destroy
    \/ CStr

SpecView == Init /\ [][NextView]_vars

\* the scratch buffer i holds the bytes of the short value Str and a 0 after
\* them
HoldsView(Buffers, i, Str) ==
    /\ \A j \in 1..KStringSize(Str) : Buffers[i][j] = Str.Content[j]
    /\ Buffers[i][KStringSize(Str) + 1] = 0

\* C16: a call of KStringCStr on a short value returns the scratch buffer
\* next in a cycle of 4, writes the bytes of the value and a 0 into it and
\* leaves the three other buffers as they are. So the views of 4 calls in a
\* row lie in 4 different buffers and stay as they were returned, and the
\* 5th call in a row writes over the view of the 1st.
C16_ScratchBuffersRotateByFour ==
    [][(/\ last'.op = "KStringCStr"
        /\ KStringIsValid(last'.x)
        /\ KStringIsShort(last'.x)) =>
           /\ last'.ret = [buf |-> BufferIndex, ptr |-> NULL]
           /\ BufferIndex' = (BufferIndex + 1) % 4
           /\ HoldsView(ShortBuffers', BufferIndex, last'.x)
           /\ \A i \in 0..3 : i # BufferIndex => ShortBuffers'[i] = ShortBuffers[i]]_vars

\* a call that returns the first buffer again while the three other buffers
\* hold views, after which the first buffer no longer holds the 12 bytes it
\* once held up to their end
C16_Witness ==
    /\ last.op = "KStringCStr"
    /\ last.ret = [buf |-> 0, ptr |-> NULL]
    /\ BufferIndex = 1
    /\ \A i \in 1..3 : ShortBuffers[i][1] # 0
    /\ KStringSize(last.x) = 5
    /\ ShortBuffers[0][7] # 0

-----------------------------------------------------------------------------
(* Properties of the conversions between UTF-8 and the single-byte set      *)

\* bytes[i..n] consists of whole UTF-8 sequences of 1 to 4 bytes: each lead
\* byte is followed by the continuation bytes it announces
RECURSIVE WholeSequences(_, _)
WholeSequences(bytes, i) ==
    LET n == IF bytes[i] < 128 THEN 1
             ELSE IF bytes[i] \div 32 = 6 THEN 2
             ELSE IF bytes[i] \div 16 = 14 THEN 3
             ELSE IF bytes[i] \div 8 = 30 THEN 4
             ELSE 0
    IN  IF i > Len(bytes) THEN TRUE
        ELSE /\ n > 0
             /\ i + n - 1 <= Len(bytes)
             /\ \A k \in 1..(n - 1) : Continuation(bytes[i + k])
             /\ WholeSequences(bytes, i + n)

\* the single-byte text of whole UTF-8 sequences: the byte itself below
\* 0x80, the code point of a two-byte sequence when it is at most 0xFF, and
\* '?' for every other sequence
RECURSIVE AnsiOf(_, _)
AnsiOf(bytes, i) ==
    IF i > Len(bytes) THEN <<>>
    ELSE IF bytes[i] < 128 THEN <<bytes[i]>> \o AnsiOf(bytes, i + 1)
    ELSE IF bytes[i] \div 32 = 6
    THEN LET c == ((bytes[i] % 32) * 64) + (bytes[i + 1] % 64)
         IN  <<IF c <= 255 THEN c ELSE 63>> \o AnsiOf(bytes, i + 2)
    ELSE IF bytes[i] \div 16 = 14 THEN <<63>> \o AnsiOf(bytes, i + 3)
    ELSE <<63>> \o AnsiOf(bytes, i + 4)

\* C17: for a UTF-8 value of any length, 0 included, KStringConvertUtf8ToAnsi
\* returns a valid ANSI value that holds, for each sequence of the input in
\* order, the byte itself, the code point of a two-byte sequence up to 0xFF,
\* or '?'; a pure ASCII input comes back with its length and its bytes.
\* (Stated for the calls in which no allocation was refused.)
C17_Utf8ToAnsiMapsEverySequence ==
    (/\ last.op = "KStringConvertUtf8ToAnsi"
     /\ KStringIsValid(last.x)
     /\ KStringGetEncoding(last.x) = KSTRING_ENCODING_UTF8
     /\ Backed(last.pre, last.x)
     /\ WholeSequences(BytesOf(last.pre, last.x), 1)
     /\ ~last.oom) =>
        /\ ~last.fault
        /\ KStringIsValid(last.ret)
        /\ KStringGetEncoding(last.ret) = KSTRING_ENCODING_ANSI
        /\ Backed(heap, last.ret)
        /\ BytesOf(heap, last.ret) = AnsiOf(BytesOf(last.pre, last.x), 1)

\* the UTF-8 text of single-byte text read as Latin-1: the byte itself
\* below 0x80, the two-byte encoding of the code point b from 0x80 on
RECURSIVE Utf8Of(_, _)
Utf8Of(bytes, i) ==
    IF i > Len(bytes) THEN <<>>
    ELSE (IF bytes[i] < 128 THEN <<bytes[i]>>
          ELSE <<192 + (bytes[i] \div 64), 128 + (bytes[i] % 64)>>)
         \o Utf8Of(bytes, i + 1)

\* C18: for an ANSI value of any length, 0 and 1 included,
\* KStringConvertAnsiToUtf8 returns a valid UTF-8 value that holds, for each
\* input byte b in order, b itself when b < 0x80 and the two-byte encoding of
\* the code point b otherwise; no input byte is dropped. (Stated for the
\* calls in which no allocation was refused.)
C18_AnsiToUtf8MapsEveryByte ==
    (/\ last.op = "KStringConvertAnsiToUtf8"
     /\ KStringIsValid(last.x)
     /\ KStringGetEncoding(last.x) = KSTRING_ENCODING_ANSI
     /\ Backed(last.pre, last.x)
     /\ ~last.oom) =>
        /\ ~last.fault
        /\ KStringIsValid(last.ret)
        /\ KStringGetEncoding(last.ret) = KSTRING_ENCODING_UTF8
        /\ Backed(heap, last.ret)
        /\ BytesOf(heap, last.ret) = Utf8Of(BytesOf(last.pre, last.x), 1)

-----------------------------------------------------------------------------
(* Tags of the conversions                                                 *)

\* the encoding each direct conversion reads and the one it writes
Direction ==
    [KStringConvertUtf8ToUtf16Le |-> <<KSTRING_ENCODING_UTF8, KSTRING_ENCODING_UTF16LE>>,
     KStringConvertUtf16LeToUtf8 |-> <<KSTRING_ENCODING_UTF16LE, KSTRING_ENCODING_UTF8>>,
     KStringConvertUtf8ToUtf16Be |-> <<KSTRING_ENCODING_UTF8, KSTRING_ENCODING_UTF16BE>>,
     KStringConvertUtf16BeToUtf8 |-> <<KSTRING_ENCODING_UTF16BE, KSTRING_ENCODING_UTF8>>,
     KStringConvertUtf16LeToUtf16Be |-> <<KSTRING_ENCODING_UTF16LE, KSTRING_ENCODING_UTF16BE>>,
     KStringConvertUtf16BeToUtf16Le |-> <<KSTRING_ENCODING_UTF16BE, KSTRING_ENCODING_UTF16LE>>,
     KStringConvertUtf8ToAnsi |-> <<KSTRING_ENCODING_UTF8, KSTRING_ENCODING_ANSI>>,
     KStringConvertAnsiToUtf8 |-> <<KSTRING_ENCODING_ANSI, KSTRING_ENCODING_UTF8>>]

\* C19: a direct conversion returns the invalid value when its input is
\* invalid or carries another tag than the one the function reads; a valid
\* result of a direct conversion or of KStringConvertToEncoding(s, t) carries
\* the tag of the destination; the call is free of undefined behaviour and
\* leaves the input value and every buffer that existed before it unchanged.
C19_ConversionsCheckAndSetTheTag ==
    last.op \in Conversions =>
        LET Direct == last.op \in DOMAIN Direction
            Target == IF Direct THEN Direction[last.op][2] ELSE last.e
        IN  /\ ~last.fault
            /\ (/\ Direct
                /\ \/ ~KStringIsValid(last.x)
                   \/ KS_GetEncodingFromField(last.x.Size) # Direction[last.op][1])
                   => ~KStringIsValid(last.ret)
            /\ KStringIsValid(last.ret) => KStringGetEncoding(last.ret) = Target
            /\ a = last.x
            /\ \A p \in DOMAIN last.pre : last.pre[p].live => heap[p] = last.pre[p]

-----------------------------------------------------------------------------
(* The ordering of KStringCompare                                          *)

\* what the client compares: equal and different texts of equal length in
\* both layouts
OrderInputs ==
    {[p |-> pHello(FALSE), n |-> W64(k), e |-> KSTRING_ENCODING_UTF8] : k \in {5, 13}}
    \cup {[p |-> pUpper(FALSE), n |-> W64(k), e |-> KSTRING_ENCODING_UTF8] : k \in {5, 13}}
    \cup {[p |-> pWurld(FALSE), n |-> W64(13), e |-> KSTRING_ENCODING_UTF8]}

NextOrder ==
    \/ CreateWithEncoding(OrderInputs, {"a", "b"})
    \/ CreateWithEncoding({[p |-> pUpper(FALSE), n |-> W64(13), e |-> KSTRING_ENCODING_ANSI]}, {"r"})
    \/ CreatePersistentWithEncoding({[p |-> pHello(FALSE), n |-> W64(13), e |-> KSTRING_ENCODING_UTF8]}, {"r"})
    \/ Destroy
    \/ Compare
    \/ Equals

SpecOrder == Init /\ [][NextOrder]_vars

\* the valid values the client holds
Held == {s \in {a, b, r} : s # Nil /\ KStringIsValid(s)}

\* KStringCompare on two held values in the present memory
Order(x, y, Env) == KStringCompare(Within(heap, 0), x, y, Env)

\* C20: on valid values of either layout KStringCompare is a consistent
\* ordering: compare(x, x) is 0, compare(x, y) and compare(y, x) have
\* opposite signs, compare(x, y) <= 0 and compare(y, z) <= 0 give
\* compare(x, z) <= 0, and KStringEquals(x, y) is true exactly when
\* compare(x, y) is 0.
C20_CompareIsAConsistentOrdering ==
    /\ \A Env \in MemcmpPlatforms :
           LET c == [x \in Held |-> [y \in Held |-> Order(x, y, Env)]]
           IN  \A x \in Held :
                   /\ c[x][x].ret = 0
                   /\ \A y \in Held :
                          /\ ~c[x][y].fault
                          /\ Sign(c[x][y].ret) = -Sign(c[y][x].ret)
                          /\ KStringEquals(Within(heap, 0), x, y, Env).ret = (c[x][y].ret = 0)
                          /\ \A z \in Held :
                                 (c[x][y].ret <= 0 /\ c[y][z].ret <= 0) => c[x][z].ret <= 0
    /\ (last.op \in {"KStringCompare", "KStringEquals"}
        /\ KStringIsValid(last.x) /\ KStringIsValid(last.y)) =>
           /\ ~last.fault
           /\ last.op = "KStringCompare" => last.ret = Order(last.x, last.y, last.env).ret
           /\ last.op = "KStringEquals" =>
                  last.ret = (Order(last.x, last.y, last.env).ret = 0)

\* two out-of-line values with the same first four bytes were compared and
\* differ
C20_Witness ==
    /\ last.op = "KStringCompare"
    /\ KStringIsValid(last.x) /\ KStringIsValid(last.y)
    /\ ~KStringIsShort(last.x) /\ ~KStringIsShort(last.y)
    /\ LongStrPrefix(last.x) = LongStrPrefix(last.y)
    /\ last.ret # 0

-----------------------------------------------------------------------------
(* The values KStringCompare returns                                       *)

\* C21: for every pair of valid inputs KStringCompare returns one of -1, 0
\* and 1, whichever branch decides.
C21_CompareReturnsMinusOneZeroOrOne ==
    (last.op = "KStringCompare" /\ KStringIsValid(last.x) /\ KStringIsValid(last.y)) =>
        /\ ~last.fault
        /\ last.ret \in {-1, 0, 1}

-----------------------------------------------------------------------------
(* Equality with and without the case of letters                           *)

\* the byte map with every byte 'A'..'Z' made lower case
LowerBytes(mem) == [o \in DOMAIN mem |-> IF mem[o] >= 65 /\ mem[o] <= 90 THEN mem[o] + 32 ELSE mem[o]]

\* the latest call was given two valid values tagged UTF-8
Utf8Pair ==
    /\ KStringIsValid(last.x) /\ KStringIsValid(last.y)
    /\ KStringGetEncoding(last.x) = KSTRING_ENCODING_UTF8
    /\ KStringGetEncoding(last.y) = KSTRING_ENCODING_UTF8

\* C22: for UTF-8 values a and b, KStringEqualsIgnoreCase(a, b) is true
\* exactly when a and b have the same length and the same bytes once 'A'..'Z'
\* are made lower case, and KStringEquals(a, b) is false whenever a and b
\* differ in the case of a letter.
C22_EqualsIgnoreCaseFoldsAsciiLetters ==
    (last.op \in {"KStringEqualsIgnoreCase", "KStringEquals"} /\ Utf8Pair) =>
        LET dx == DataOf(last.pre, last.x)
            dy == DataOf(last.pre, last.y)
            SameFolded == /\ KStringSize(last.x) = KStringSize(last.y)
                          /\ LowerBytes(dx) = LowerBytes(dy)
        IN  /\ ~last.fault
            /\ last.op = "KStringEqualsIgnoreCase" => last.ret = SameFolded
            /\ (last.op = "KStringEquals" /\ SameFolded /\ dx # dy) => last.ret = FALSE

\* two out-of-line UTF-8 values that differ only in the case of letters were
\* found equal without regard to case
C22_Witness ==
    /\ last.op = "KStringEqualsIgnoreCase"
    /\ Utf8Pair
    /\ ~KStringIsShort(last.x)
    /\ DataOf(last.pre, last.x) # DataOf(last.pre, last.y)
    /\ last.ret = TRUE

-----------------------------------------------------------------------------
(* A code point above 0xFFFF                                               *)

\* C23: for a UTF-8 value of one code point above 0xFFFF in 4 bytes (U+1F600),
\* KStringConvertUtf8ToUtf16Le returns a UTF-16LE value of exactly 4 bytes,
\* the high surrogate followed by the low surrogate, and
\* KStringConvertUtf16LeToUtf8 of that value gives back the 4 bytes. (Stated
\* for the calls in which no allocation is refused.)
C23_SurrogatePairRoundTrip ==
    (/\ last.op = "KStringConvertUtf8ToUtf16Le"
     /\ KStringIsValid(last.x)
     /\ KStringGetEncoding(last.x) = KSTRING_ENCODING_UTF8
     /\ KStringSize(last.x) = 4
     /\ BytesOf(last.pre, last.x) = <<240, 159, 152, 128>>
     /\ ~last.oom) =>
        LET Back == KStringConvertUtf16LeToUtf8(Within(heap, 2), last.ret)
        IN  Back.H.oom
            \/ /\ ~last.fault
               /\ KStringIsValid(last.ret)
               /\ KStringGetEncoding(last.ret) = KSTRING_ENCODING_UTF16LE
               /\ KStringSize(last.ret) = 4
               /\ BytesOf(heap, last.ret) = <<61, 216, 0, 222>>
               /\ ~Back.H.fault
               /\ KStringIsValid(Back.ret)
               /\ KStringGetEncoding(Back.ret) = KSTRING_ENCODING_UTF8
               /\ KStringSize(Back.ret) = 4
               /\ BytesOf(Back.H.blk, Back.ret) = <<240, 159, 152, 128>>

\* the 4-byte sequence of U+1F600 was converted to two units
C23_Witness ==
    /\ last.op = "KStringConvertUtf8ToUtf16Le"
    /\ KStringIsValid(last.x)
    /\ KStringGetEncoding(last.x) = KSTRING_ENCODING_UTF8
    /\ KStringSize(last.x) = 4
    /\ BytesOf(last.pre, last.x) = <<240, 159, 152, 128>>
    /\ KStringIsValid(last.ret)
    /\ KStringSize(last.ret) = 4

-----------------------------------------------------------------------------
(* Totality of the conversions                                             *)

\* C24: every conversion, the two byte-order swaps included, returns for
\* every valid, correctly tagged input of every length, 0 included, without
\* a wrapped loop bound and without a read or write past the source or the
\* destination.
C24_ConversionsAreTotal ==
    (/\ last.op \in Conversions
     /\ KStringIsValid(last.x)
     /\ last.op \in DOMAIN Direction =>
            KStringGetEncoding(last.x) = Direction[last.op][1]) =>
        /\ ~last.fault
        /\ ~last.crash

-----------------------------------------------------------------------------
(* KStringCompare against the ordering by length, then bytes               *)

\* the reference ordering of two valid values in the memory blk: the
\* shorter one is less; of two of equal length the one with the smaller
\* byte, as unsigned char, at the first offset where they differ
ReferenceOrder(blk, x, y) ==
    LET dx == DataOf(blk, x)
        dy == DataOf(blk, y)
        D == {o \in DOMAIN dx \cup DOMAIN dy : At(dx, o) # At(dy, o)}
        first == CHOOSE o \in D : \A o2 \in D : o <= o2
    IN  IF KStringSize(x) # KStringSize(y)
        THEN IF KStringSize(x) < KStringSize(y) THEN -1 ELSE 1
        ELSE IF D = {} THEN 0
        ELSE IF At(dx, first) < At(dy, first) THEN -1 ELSE 1

\* C25: for valid a and b of either layout and any storage class the sign
\* of KStringCompare(a, b) is that of the reference ordering, lengths first
\* and then the whole contents as unsigned bytes; this holds as well for a
\* value KStringConcat or KStringSubstring has just built, compared with
\* the value it was built from.
C25_CompareRefinesLengthThenBytes ==
    /\ (last.op = "KStringCompare" /\ KStringIsValid(last.x) /\ KStringIsValid(last.y)) =>
           /\ ~last.fault
           /\ Sign(last.ret) = ReferenceOrder(last.pre, last.x, last.y)
    /\ (/\ last.op \in {"KStringConcat", "KStringSubstring"}
        /\ ~last.fault
        /\ KStringIsValid(last.x)
        /\ KStringIsValid(last.ret)) =>
           \A Env \in MemcmpPlatforms :
               LET c == KStringCompare(Within(heap, 0), last.ret, last.x, Env)
               IN  /\ ~c.fault
                   /\ Sign(c.ret) = ReferenceOrder(heap, last.ret, last.x)

\* a wrapped and a copied out-of-line value of the same bytes were compared
C25_Witness ==
    /\ last.op = "KStringCompare"
    /\ KStringIsValid(last.x) /\ KStringIsValid(last.y)
    /\ ~KStringIsShort(last.x) /\ ~KStringIsShort(last.y)
    /\ KS_GetStorageClass(LongStrPtrAndClass(last.x)) # KS_GetStorageClass(LongStrPtrAndClass(last.y))
    /\ last.ret = 0

-----------------------------------------------------------------------------
(* What the prefix shortcuts read                                          *)

\* the memory blk with every object outside the values made unreadable: a
\* call that reads one of them has undefined behaviour
Unreadable(blk) == [p \in DOMAIN blk |-> [blk[p] EXCEPT !.live = FALSE]]

\* C26: given two out-of-line values of equal length whose stored prefixes
\* differ, KStringCompare returns the comparison of the prefixes and reads
\* neither buffer; KStringStartsWith on an out-of-line subject and a
\* candidate of at most 4 bytes decides from the stored prefix and does not
\* read the subject's buffer.
C26_PrefixShortcutsReadNoBuffer ==
    /\ (/\ last.op = "KStringCompare"
        /\ KStringIsValid(last.x) /\ KStringIsValid(last.y)
        /\ ~KStringIsShort(last.x) /\ ~KStringIsShort(last.y)
        /\ KStringSize(last.x) = KStringSize(last.y)
        /\ LongStrPrefix(last.x) # LongStrPrefix(last.y)) =>
           LET c == KStringCompare(Within(Unreadable(last.pre), 0), last.x, last.y, last.env)
           IN  /\ ~last.fault
               /\ ~c.fault
               /\ c.ret = last.ret
               /\ last.ret = Memcmp(LocalView(LongStrPrefix(last.x)),
                                    LocalView(LongStrPrefix(last.y)), 4, last.env).ret
    /\ (/\ last.op = "KStringStartsWith"
        /\ KStringIsValid(last.x) /\ KStringIsValid(last.y)
        /\ ~KStringIsShort(last.x)
        /\ KStringSize(last.y) <= 4) =>
           LET c == KStringStartsWith(Within(Unreadable(last.pre), 0), last.x, last.y, last.env)
           IN  /\ ~last.fault
               /\ ~c.fault
               /\ c.ret = last.ret
               /\ last.ret = (Bytes(MemOf(LongStrPrefix(last.x)), 0, KStringSize(last.y))
                                  = BytesOf(last.pre, last.y))

\* two out-of-line values of equal length and different prefixes were
\* compared
C26_Witness ==
    /\ last.op = "KStringCompare"
    /\ KStringIsValid(last.x) /\ KStringIsValid(last.y)
    /\ ~KStringIsShort(last.x) /\ ~KStringIsShort(last.y)
    /\ KStringSize(last.x) = KStringSize(last.y)
    /\ LongStrPrefix(last.x) # LongStrPrefix(last.y)
    /\ ~last.fault

-----------------------------------------------------------------------------
(* Unpaired surrogates                                                     *)

\* the 16-bit units of a sequence of bytes in little-endian order
UnitsOf(bytes) == [k \in 1..(Len(bytes) \div 2) |-> bytes[2 * k - 1] + 256 * bytes[2 * k]]

\* the UTF-8 bytes of the units from index i on: a high surrogate with the
\* low surrogate after it gives the 4 bytes of their code point, a high
\* surrogate without one gives nothing, any other unit gives its encoding
RECURSIVE Utf8OfUnits(_, _)
Utf8OfUnits(units, i) ==
    IF i > Len(units) THEN <<>>
    ELSE IF IsHighSurrogate(units[i])
    THEN IF i < Len(units) /\ IsLowSurrogate(units[i + 1])
         THEN Utf8Encode(65536 + (units[i] - 55296) * 1024 + (units[i + 1] - 56320))
                  \o Utf8OfUnits(units, i + 2)
         ELSE Utf8OfUnits(units, i + 1)
    ELSE Utf8Encode(units[i]) \o Utf8OfUnits(units, i + 1)

\* C27: KStringConvertUtf16LeToUtf8 gives no bytes for a unit 0xD800..0xDBFF
\* that no unit 0xDC00..0xDFFF follows, be it followed by another unit or the
\* last one of the input, and encodes every other unit. (Stated for the
\* calls in which no allocation is refused.)
C27_UnpairedHighSurrogateIsSkipped ==
    (/\ last.op = "KStringConvertUtf16LeToUtf8"
     /\ KStringIsValid(last.x)
     /\ KStringGetEncoding(last.x) = KSTRING_ENCODING_UTF16LE
     /\ Backed(last.pre, last.x)
     /\ ~last.oom) =>
        /\ ~last.fault
        /\ KStringIsValid(last.ret)
        /\ KStringGetEncoding(last.ret) = KSTRING_ENCODING_UTF8
        /\ BytesOf(heap, last.ret) = Utf8OfUnits(UnitsOf(BytesOf(last.pre, last.x)), 1)

-----------------------------------------------------------------------------
(* Releasing the invalid value                                             *)

\* C28: KStringDestroy of an invalid value, the one KStringInvalid returns
\* or the result of a failed operation, frees nothing and leaves the memory
\* as it was.
C28_DestroyOfInvalidIsANoOp ==
    (last.op = "KStringDestroy" /\ ~KStringIsValid(last.x)) =>
        /\ ~last.fault
        /\ heap = last.pre

\* an invalid value was released while a buffer was allocated
C28_Witness ==
    /\ last.op = "KStringDestroy"
    /\ ~KStringIsValid(last.x)
    /\ InUse(last.pre) # {}
    /\ ~last.fault

-----------------------------------------------------------------------------
(* The encoding tag in comparisons                                         *)

\* the value Str with its encoding tag replaced by e
Retagged(Str, e) ==
    [Str EXCEPT !.Size = KS_CreateSizeField(W64(KS_GetSizeFromField(Str.Size)), e)]

\* the valid values that differ from Str in the tag at most
Retaggings(Str) == {s \in {Retagged(Str, e) : e \in KStringEncoding} : KStringIsValid(s)}

\* the answer of the comparison op on x and y in the memory of the latest call
Compared(op, x, y) ==
    IF op = "KStringCompare" THEN KStringCompare(Within(last.pre, 0), x, y, last.env)
    ELSE IF op = "KStringEquals" THEN KStringEquals(Within(last.pre, 0), x, y, last.env)
    ELSE KStringStartsWith(Within(last.pre, 0), x, y, last.env)

\* C29: KStringCompare, KStringEquals and KStringStartsWith depend on the
\* length and the bytes of their operands only: replacing the encoding tag
\* of either operand leaves the result as it is, and two valid values of the
\* same length and bytes compare as 0 and equal whatever their tags.
C29_ComparisonsIgnoreTheTag ==
    (/\ last.op \in {"KStringCompare", "KStringEquals", "KStringStartsWith"}
     /\ KStringIsValid(last.x) /\ KStringIsValid(last.y)) =>
        /\ ~last.fault
        /\ \A x \in Retaggings(last.x), y \in Retaggings(last.y) :
               /\ ~Compared(last.op, x, y).fault
               /\ Compared(last.op, x, y).ret = last.ret
        /\ (/\ KStringSize(last.x) = KStringSize(last.y)
            /\ DataOf(last.pre, last.x) = DataOf(last.pre, last.y)) =>
               last.ret = (IF last.op = "KStringCompare" THEN 0 ELSE TRUE)

\* two values of the same bytes under different tags were found equal
C29_Witness ==
    /\ last.op = "KStringEquals"
    /\ KStringIsValid(last.x) /\ KStringIsValid(last.y)
    /\ KStringGetEncoding(last.x) # KStringGetEncoding(last.y)
    /\ last.ret = TRUE

====
